---------------------------- MODULE Spec2Model ----------------------------
(***************************************************************************)
(* Dashboard aggregation engine of the Vortex dashboard page               *)
(* (processDataForDashboard and its seven aggregators, findColumn,         *)
(* generateDefaultData) together with the page that loads the dataset,     *)
(* holds the result in dashboardData and shows it (loadDashboardData,      *)
(* fetchAutoVisualization, updateDashboard, updateGenderChart).            *)
(*                                                                         *)
(* JavaScript values are modelled as records tagged by their typeof:       *)
(*   - a string is a sequence of one-character strings, so toLowerCase,    *)
(*     includes, parseFloat, parseInt and Date parsing are computed        *)
(*     character by character;                                             *)
(*   - a number is a rational n/d in lowest terms with d > 0; d = 0 is     *)
(*     NaN.  IEEE-754 rounding is not modelled: arithmetic is exact;       *)
(*   - an object is an insertion-ordered sequence of key/value entries;    *)
(*   - a call that raises (TypeError) yields the value Threw.              *)
(* The host is taken to run in time zone UTC; its locale is part of the    *)
(* state (hostLocale).                                                     *)
(***************************************************************************)
EXTENDS Integers, Sequences, FiniteSets, TLC

VARIABLES
    hostLocale,     \* the locale toLocaleString('default', ...) resolves to
    data,           \* argument of the last processDataForDashboard call
    calls,          \* functions entered by the last call, in call order
    views,          \* what each aggregator yielded in the last call
    result,         \* outcome of the last call: Ok(reference into heap) or Threw
    heap,           \* the result records allocated so far (object identity)
    history,        \* argument and outcome of every call made so far
    written,        \* the objects assigned into during the last call
    uploadedData,   \* the item 'uploadedData' of localStorage
    loader,         \* where loadDashboardData and its request stand
    dashboardData,  \* the page's dashboardData: Undefined or Ok(reference)
    updates,        \* number of updateDashboard calls so far
    genderChart,    \* the bubbles of the gender chart, Undefined without chart
    legends,        \* texts of the '.heatmap-legend span:last-child' elements
    figureCards     \* number of auto-figure cards on the page

engineVars == <<data, calls, views, result, heap, history, written>>
pageVars == <<uploadedData, loader, dashboardData, updates, genderChart, legends,
              figureCards>>
vars == <<hostLocale, engineVars, pageVars>>

----------------------------------------------------------------------------
(* JavaScript values *)

Undefined == [t |-> "undefined"]
Null == [t |-> "null"]
Threw == [t |-> "threw"]
NotRun == [t |-> "notrun"]
JSBool(b) == [t |-> "boolean", b |-> b]
JSStr(s) == [t |-> "string", s |-> s]
JSObj(e) == [t |-> "object", e |-> e]
\* a built-in function object of the given name
JSFunction(name) == [t |-> "function", name |-> name]
JSArr(a) == [t |-> "array", a |-> a]

RECURSIVE GCD(_, _)
GCD(a, b) == IF b = 0 THEN a ELSE GCD(b, a % b)

Abs(x) == IF x < 0 THEN -x ELSE x

\* the number n/d (d # 0) in lowest terms with a positive denominator
Rat(n, d) ==
    LET g == GCD(Abs(n), Abs(d))
        s == IF d < 0 THEN -1 ELSE 1
    IN [t |-> "number", n |-> s * (n \div g), d |-> s * (d \div g)]

Num(i) == [t |-> "number", n |-> i, d |-> 1]
NaN == [t |-> "number", n |-> 0, d |-> 0]
IsNaN(x) == x.d = 0

Add(x, y) == Rat(x.n * y.d + y.n * x.d, x.d * y.d)
Sub(x, y) == Rat(x.n * y.d - y.n * x.d, x.d * y.d)
Mul(x, y) ==
    LET g1 == GCD(Abs(x.n), y.d)
        g2 == GCD(Abs(y.n), x.d)
    IN Rat((x.n \div g1) * (y.n \div g2), (x.d \div g2) * (y.d \div g1))
\* x / y for y # 0
Div(x, y) == Mul(x, Rat(y.d, y.n))
Gt(x, y) == x.n * y.d > y.n * x.d
Le(x, y) == x.n * y.d <= y.n * x.d

----------------------------------------------------------------------------
(* binary64 arithmetic on non-negative numbers, for the results whose stated
   properties depend on rounding (the gender percentages).  A number is
   sig * 2^exp with sig a sequence of F64Precision bits, the first one 1;
   zero has the empty sig.  Results are rounded to nearest, ties to even. *)

F64Precision == 53

F64Make(sig, e) == [t |-> "number", sig |-> sig, exp |-> e]
F64Zero == F64Make(<<>>, 0)

\* the binary digits of a natural number, most significant first
RECURSIVE IntBits(_)
IntBits(k) == IF k = 0 THEN <<>> ELSE Append(IntBits(k \div 2), k % 2)

Zeros(k) == [i \in 1..k |-> 0]

RECURSIVE StripZeros(_)
StripZeros(b) == IF b # <<>> /\ Head(b) = 0 THEN StripZeros(Tail(b)) ELSE b

\* b + 1, one bit longer on carry out
RECURSIVE BitsInc(_)
BitsInc(b) ==
    IF b = <<>> THEN <<1>>
    ELSE IF b[Len(b)] = 0 THEN Append(SubSeq(b, 1, Len(b) - 1), 1)
    ELSE Append(BitsInc(SubSeq(b, 1, Len(b) - 1)), 0)

\* a + b for bit sequences of equal length, from bit i down
RECURSIVE BitsAddFrom(_, _, _, _, _)
BitsAddFrom(a, b, i, carry, acc) ==
    IF i = 0 THEN <<carry>> \o acc
    ELSE BitsAddFrom(a, b, i - 1, (a[i] + b[i] + carry) \div 2,
                     <<(a[i] + b[i] + carry) % 2>> \o acc)

\* the value of a bit sequence, most significant bit first
RECURSIVE BitsVal(_)
BitsVal(b) == IF b = <<>> THEN 0 ELSE 2 * BitsVal(SubSeq(b, 1, Len(b) - 1)) + b[Len(b)]

\* the w low bits of a natural number
LowBits(v, w) == [j \in 1..w |-> (v \div 2^(w - j)) % 2]

\* a * k for a bit sequence a and a natural number k < 2^14, from bit i
\* down, sixteen bits at a time
RECURSIVE BitsMulFrom(_, _, _, _, _)
BitsMulFrom(a, k, i, carry, acc) ==
    IF i = 0 THEN IntBits(carry) \o acc
    ELSE IF i <= 16
    THEN IntBits((BitsVal(SubSeq(a, 1, i)) * k + carry) \div 2^i)
            \o LowBits(BitsVal(SubSeq(a, 1, i)) * k + carry, i) \o acc
    ELSE BitsMulFrom(a, k, i - 16,
            (BitsVal(SubSeq(a, i - 15, i)) * k + carry) \div 2^16,
            LowBits(BitsVal(SubSeq(a, i - 15, i)) * k + carry, 16) \o acc)

\* q + 1 for a full significand q, renormalised
F64RoundUp(q, e) ==
    IF Len(BitsInc(q)) > Len(q)
    THEN F64Make(SubSeq(BitsInc(q), 1, Len(q)), e + 1)
    ELSE F64Make(BitsInc(q), e)

\* the binary64 nearest to b * 2^e (plus a non-zero part below the last bit
\* of b when sticky), for b with a leading 1
F64RoundBits(b, e, sticky) ==
    IF b = <<>> THEN F64Zero
    ELSE IF Len(b) <= F64Precision
    THEN F64Make(b \o Zeros(F64Precision - Len(b)), e - (F64Precision - Len(b)))
    ELSE IF /\ b[F64Precision + 1] = 1
            /\ \/ sticky
               \/ \E i \in (F64Precision + 2)..Len(b) : b[i] = 1
               \/ b[F64Precision] = 1
    THEN F64RoundUp(SubSeq(b, 1, F64Precision), e + Len(b) - F64Precision)
    ELSE F64Make(SubSeq(b, 1, F64Precision), e + Len(b) - F64Precision)

F64Round(b, e, sticky) == F64RoundBits(StripZeros(b), e, sticky)

\* long division: the quotient bits after those of acc (k of them after the
\* binary point), until two bits beyond the precision are known
RECURSIVE QuotientFrom(_, _, _, _)
QuotientFrom(rem, d, acc, k) ==
    IF rem = 0 \/ Len(acc) >= F64Precision + 2 THEN F64Round(acc, -k, rem # 0)
    ELSE QuotientFrom((2 * rem) % d, d, StripZeros(Append(acc, (2 * rem) \div d)), k + 1)

\* n / d for natural numbers n and d > 0; also the value of a decimal literal
F64FromRatio(n, d) == QuotientFrom(n % d, d, IntBits(n \div d), 0)

F64Int(k) == F64FromRatio(k, 1)

\* x * k for a natural number k > 0
F64Times(x, k) ==
    IF x.sig = <<>> THEN F64Zero
    ELSE F64Round(BitsMulFrom(x.sig, k, Len(x.sig), 0, <<>>), x.exp, FALSE)

\* x + y
RECURSIVE F64Plus(_, _)
F64Plus(x, y) ==
    IF x.sig = <<>> THEN y
    ELSE IF y.sig = <<>> THEN x
    ELSE IF x.exp < y.exp THEN F64Plus(y, x)
    ELSE F64Round(BitsAddFrom(x.sig \o Zeros(x.exp - y.exp),
                              Zeros(x.exp - y.exp) \o y.sig,
                              Len(x.sig) + x.exp - y.exp, 0, <<>>),
                  y.exp, FALSE)

\* x <= y
F64Le(x, y) ==
    IF x.sig = <<>> THEN TRUE
    ELSE IF y.sig = <<>> THEN FALSE
    ELSE \/ x.exp < y.exp
         \/ /\ x.exp = y.exp
            /\ \/ x.sig = y.sig
               \/ \E i \in 1..Len(x.sig) :
                      /\ x.sig[i] < y.sig[i]
                      /\ \A j \in 1..(i - 1) : x.sig[j] = y.sig[j]

----------------------------------------------------------------------------
(* Strings *)

UpperChars == <<"A","B","C","D","E","F","G","H","I","J","K","L","M",
                "N","O","P","Q","R","S","T","U","V","W","X","Y","Z">>
LowerChars == <<"a","b","c","d","e","f","g","h","i","j","k","l","m",
                "n","o","p","q","r","s","t","u","v","w","x","y","z">>
DigitChars == <<"0","1","2","3","4","5","6","7","8","9">>

LowerChar(c) ==
    IF \E i \in 1..26 : UpperChars[i] = c
    THEN LowerChars[CHOOSE i \in 1..26 : UpperChars[i] = c]
    ELSE c

\* String.prototype.toLowerCase
ToLowerCase(s) == [i \in 1..Len(s) |-> LowerChar(s[i])]

\* String.prototype.includes
Includes(s, sub) ==
    \E i \in 0..(Len(s) - Len(sub)) :
        \A j \in 1..Len(sub) : s[i + j] = sub[j]

IsDigit(c) == \E i \in 1..10 : DigitChars[i] = c
DigitVal(c) == (CHOOSE i \in 1..10 : DigitChars[i] = c) - 1
IsSpace(c) == c = " "

\* length of the longest prefix of s from position i made of digits
RECURSIVE DigitRun(_, _)
DigitRun(s, i) ==
    IF i <= Len(s) /\ IsDigit(s[i]) THEN 1 + DigitRun(s, i + 1) ELSE 0

\* value of the digits s[i..i+k-1]
RECURSIVE DigitsVal(_, _, _)
DigitsVal(s, i, k) ==
    IF k = 0 THEN 0 ELSE DigitsVal(s, i, k - 1) * 10 + DigitVal(s[i + k - 1])

RECURSIVE Pow10(_)
Pow10(k) == IF k = 0 THEN 1 ELSE 10 * Pow10(k - 1)

RECURSIVE SkipSpaces(_, _)
SkipSpaces(s, i) ==
    IF i <= Len(s) /\ IsSpace(s[i]) THEN SkipSpaces(s, i + 1) ELSE i

\* digits of a natural number, most significant first
RECURSIVE NatDigits(_)
NatDigits(n) ==
    IF n < 10 THEN <<DigitChars[n + 1]>>
    ELSE Append(NatDigits(n \div 10), DigitChars[(n % 10) + 1])


----------------------------------------------------------------------------
(* Conversions (ECMAScript abstract operations used by the engine) *)

S_true == <<"t","r","u","e">>
S_false == <<"f","a","l","s","e">>
S_null == <<"n","u","l","l">>
S_undefined == <<"u","n","d","e","f","i","n","e","d">>
S_NaN == <<"N","a","N">>
S_function == <<"f","u","n","c","t","i","o","n"," ">>
S_nativeCode == <<"(",")"," ","{"," ","[","n","a","t","i","v","e"," ","c","o","d","e","]"," ","}">>
S_objectObject == <<"[","o","b","j","e","c","t"," ","O","b","j","e","c","t","]">>

\* smallest k with d dividing 10^k (d has only the prime factors 2 and 5)
RECURSIVE DecimalPlaces(_, _)
DecimalPlaces(d, k) == IF Pow10(k) % d = 0 THEN k ELSE DecimalPlaces(d, k + 1)

\* the k digits of n, zero-padded on the left
RECURSIVE PadDigits(_, _)
PadDigits(n, k) ==
    IF k = 0 THEN <<>> ELSE Append(PadDigits(n \div 10, k - 1), DigitChars[(n % 10) + 1])

\* Number::toString for NaN and for the finite numbers with a terminating
\* decimal expansion
NumberToString(x) ==
    IF IsNaN(x) THEN S_NaN
    ELSE LET a == Abs(x.n)
             sign == IF x.n < 0 THEN <<"-">> ELSE <<>>
             k == DecimalPlaces(x.d, 0)
             frac == (a % x.d) * (Pow10(k) \div x.d)
         IN sign \o NatDigits(a \div x.d)
                 \o (IF k = 0 THEN <<>> ELSE <<".">> \o PadDigits(frac, k))

\* ToString(v) of ECMAScript
JSToString(v) ==
    CASE v.t = "string" -> v.s
      [] v.t = "number" -> NumberToString(v)
      [] v.t = "boolean" -> IF v.b THEN S_true ELSE S_false
      [] v.t = "null" -> S_null
      [] v.t = "undefined" -> S_undefined
      [] v.t = "function" -> S_function \o v.name \o S_nativeCode
      [] OTHER -> S_objectObject

\* ToBoolean
Truthy(v) ==
    CASE v.t = "undefined" -> FALSE
      [] v.t = "null" -> FALSE
      [] v.t = "boolean" -> v.b
      [] v.t = "number" -> ~IsNaN(v) /\ v.n # 0
      [] v.t = "string" -> Len(v.s) > 0
      [] OTHER -> TRUE

\* parseFloat(v): the longest prefix of JSToString(v), after leading white
\* space, that is a decimal literal (sign, digits, fraction, exponent);
\* NaN when there is none.  The literal Infinity is not modelled.
\* the exponent part at position i3, applied to the mantissa m / 10^k2
ParseFloatExponent(s, m, k2, i3) ==
    LET hasE == i3 <= Len(s) /\ (s[i3] = "e" \/ s[i3] = "E")
        signed == hasE /\ i3 + 1 <= Len(s) /\ (s[i3 + 1] = "-" \/ s[i3 + 1] = "+")
        i4 == IF signed THEN i3 + 2 ELSE i3 + 1
        k3 == IF hasE THEN DigitRun(s, i4) ELSE 0
    IN IF k3 = 0 THEN Rat(m, Pow10(k2))
       ELSE IF s[i3 + 1] = "-" THEN Rat(m, Pow10(k2 + DigitsVal(s, i4, k3)))
       ELSE Mul(Rat(m, Pow10(k2)), Num(Pow10(DigitsVal(s, i4, k3))))
\* k1 integer digits from i1, then k2 fraction digits after the point
ParseFloatDigits(s, neg, i1, k1, k2) ==
    LET mant == DigitsVal(s, i1, k1) * Pow10(k2) + DigitsVal(s, i1 + k1 + 1, k2)
        dot == i1 + k1 <= Len(s) /\ s[i1 + k1] = "."
    IN IF k1 + k2 = 0 THEN NaN
       ELSE ParseFloatExponent(s, IF neg THEN -mant ELSE mant, k2,
                               IF dot THEN i1 + k1 + 1 + k2 ELSE i1 + k1)
ParseFloatFraction(s, neg, i1, k1) ==
    ParseFloatDigits(s, neg, i1, k1,
                     IF i1 + k1 <= Len(s) /\ s[i1 + k1] = "."
                     THEN DigitRun(s, i1 + k1 + 1) ELSE 0)
ParseFloatSign(s, i0) ==
    IF i0 <= Len(s) /\ (s[i0] = "-" \/ s[i0] = "+")
    THEN ParseFloatFraction(s, s[i0] = "-", i0 + 1, DigitRun(s, i0 + 1))
    ELSE ParseFloatFraction(s, FALSE, i0, DigitRun(s, i0))
ParseFloat(v) == ParseFloatSign(JSToString(v), SkipSpaces(JSToString(v), 1))

\* parseInt(v) with no radix: the longest signed decimal digit prefix of
\* JSToString(v) after leading white space; NaN when there is none.  A 0x
\* prefix (radix 16) is not modelled.
ParseIntDigits(s, neg, i1, k1) ==
    IF k1 = 0 THEN NaN
    ELSE Num(IF neg THEN -DigitsVal(s, i1, k1) ELSE DigitsVal(s, i1, k1))
ParseIntSign(s, i0) ==
    IF i0 <= Len(s) /\ (s[i0] = "-" \/ s[i0] = "+")
    THEN ParseIntDigits(s, s[i0] = "-", i0 + 1, DigitRun(s, i0 + 1))
    ELSE ParseIntDigits(s, FALSE, i0, DigitRun(s, i0))
ParseInt(v) == ParseIntSign(JSToString(v), SkipSpaces(JSToString(v), 1))

\* x || 0
OrZero(x) == IF Truthy(x) THEN x ELSE Num(0)

\* position after the decimal literal (digits, fraction, exponent) of s that
\* starts at i, or 0 when there is none
LiteralEnd(s, i) ==
    LET k1 == DigitRun(s, i)
        dot == i + k1 <= Len(s) /\ s[i + k1] = "."
        k2 == IF dot THEN DigitRun(s, i + k1 + 1) ELSE 0
        m == IF dot THEN i + k1 + 1 + k2 ELSE i + k1
        signed == m + 1 <= Len(s) /\ (s[m + 1] = "-" \/ s[m + 1] = "+")
        k3 == IF m <= Len(s) /\ (s[m] = "e" \/ s[m] = "E")
              THEN DigitRun(s, IF signed THEN m + 2 ELSE m + 1) ELSE 0
    IN IF k1 + k2 = 0 THEN 0
       ELSE IF k3 = 0 THEN m
       ELSE (IF signed THEN m + 2 ELSE m + 1) + k3

\* s with its trailing white space removed
RECURSIVE TrimEnd(_)
TrimEnd(s) ==
    IF s # <<>> /\ IsSpace(s[Len(s)]) THEN TrimEnd(SubSeq(s, 1, Len(s) - 1)) ELSE s

\* StringToNumber: 0 for white space, the value of a decimal literal that
\* fills the string, NaN otherwise.  Infinity and the 0x, 0o and 0b forms are
\* not modelled.
StringToNumber(s, i0) ==
    IF i0 > Len(s) THEN Num(0)
    ELSE IF LiteralEnd(s, IF s[i0] = "-" \/ s[i0] = "+" THEN i0 + 1 ELSE i0) = Len(s) + 1
    THEN ParseFloatSign(s, i0)
    ELSE NaN

\* ToNumber(v) of ECMAScript; objects and functions convert through their
\* string form
ToNumber(v) ==
    CASE v.t = "number" -> v
      [] v.t = "undefined" -> NaN
      [] v.t = "null" -> Num(0)
      [] v.t = "boolean" -> IF v.b THEN Num(1) ELSE Num(0)
      [] OTHER -> StringToNumber(TrimEnd(JSToString(v)), SkipSpaces(TrimEnd(JSToString(v)), 1))

\* x + y for a number y: concatenation when x converts to a string (strings,
\* objects, functions), numeric addition otherwise
Plus(x, y) ==
    IF x.t \in {"string", "object", "array", "function"}
    THEN JSStr(JSToString(x) \o JSToString(y))
    ELSE IF IsNaN(ToNumber(x)) \/ IsNaN(y) THEN NaN
    ELSE Add(ToNumber(x), y)

\* x / y for a number y # 0
Over(x, y) == IF IsNaN(ToNumber(x)) THEN NaN ELSE Div(ToNumber(x), y)

\* a canonical array index written in decimal ("0", "7", "10"; not "07")
IsIndexKey(k) ==
    /\ Len(k) > 0
    /\ \A i \in 1..Len(k) : IsDigit(k[i])
    /\ (Len(k) > 1 => k[1] # "0")

\* o[key] for a property key (a string); Threw when o is null or undefined
GetProp(o, key) ==
    CASE o.t \in {"null", "undefined"} -> Threw
      [] o.t = "object" ->
            IF \E i \in 1..Len(o.e) : o.e[i].k = key
            THEN o.e[CHOOSE i \in 1..Len(o.e) : o.e[i].k = key].v
            ELSE Undefined
      [] o.t = "array" ->
            IF IsIndexKey(key) /\ DigitsVal(key, 1, Len(key)) < Len(o.a)
            THEN o.a[DigitsVal(key, 1, Len(key)) + 1]
            ELSE Undefined
      [] o.t = "string" ->
            IF IsIndexKey(key) /\ DigitsVal(key, 1, Len(key)) < Len(o.s)
            THEN JSStr(<<o.s[DigitsVal(key, 1, Len(key)) + 1]>>)
            ELSE Undefined
      [] OTHER -> Undefined

\* o.length
LengthOf(o) ==
    CASE o.t = "array" -> Num(Len(o.a))
      [] o.t = "string" -> Num(Len(o.s))
      [] OTHER -> GetProp(o, <<"l","e","n","g","t","h">>)

\* the keys of an insertion-ordered entry list in property order: integer
\* keys ascending first, then the other keys in insertion order
RECURSIVE IndexKeysSorted(_)
IndexKeysSorted(S) ==
    IF S = {} THEN <<>>
    ELSE LET k == CHOOSE x \in S :
                    \A y \in S : DigitsVal(x, 1, Len(x)) <= DigitsVal(y, 1, Len(y))
         IN <<k>> \o IndexKeysSorted(S \ {k})

RECURSIVE NonIndexKeys(_)
NonIndexKeys(e) ==
    IF e = <<>> THEN <<>>
    ELSE (IF IsIndexKey(Head(e).k) THEN <<>> ELSE <<Head(e).k>>) \o NonIndexKeys(Tail(e))

OwnKeys(e) ==
    IndexKeysSorted({e[i].k : i \in {j \in 1..Len(e) : IsIndexKey(e[j].k)}})
        \o NonIndexKeys(e)

\* Object.keys(o), for o neither null nor undefined (on which it raises)
ObjectKeys(o) ==
    CASE o.t = "object" -> OwnKeys(o.e)
      [] o.t = "array" -> [i \in 1..Len(o.a) |-> NatDigits(i - 1)]
      [] o.t = "string" -> [i \in 1..Len(o.s) |-> NatDigits(i - 1)]
      [] OTHER -> <<>>

----------------------------------------------------------------------------
(* String literals of the source *)

S_revenue == <<"r","e","v","e","n","u","e">>
S_sales == <<"s","a","l","e","s">>
S_total == <<"t","o","t","a","l">>
S_amount == <<"a","m","o","u","n","t">>
S_profit == <<"p","r","o","f","i","t">>
S_cost == <<"c","o","s","t">>
S_cogs == <<"c","o","g","s">>
S_expense == <<"e","x","p","e","n","s","e">>
S_gender == <<"g","e","n","d","e","r">>
S_sex == <<"s","e","x">>
S_age == <<"a","g","e">>
S_customer == <<"c","u","s","t","o","m","e","r">>
S_name == <<"n","a","m","e">>
S_client == <<"c","l","i","e","n","t">>
S_date == <<"d","a","t","e">>
S_time == <<"t","i","m","e">>
S_month == <<"m","o","n","t","h">>
S_category == <<"c","a","t","e","g","o","r","y">>
S_product == <<"p","r","o","d","u","c","t">>
S_type == <<"t","y","p","e">>
S_m == <<"m">>
S_male == <<"m","a","l","e">>
S_f == <<"f">>
S_female == <<"f","e","m","a","l","e">>

AgeLabels == << <<"0","-","2","0">>, <<"2","1","-","3","0">>, <<"3","1","-","4","0">>,
                <<"4","1","-","5","0">>, <<"5","1","+">> >>
MonthLabels == << <<"J","a","n">>, <<"F","e","b">>, <<"M","a","r">>, <<"A","p","r">>,
                  <<"M","a","y">>, <<"J","u","n">>, <<"J","u","l">>, <<"A","u","g">>,
                  <<"S","e","p">>, <<"O","c","t">>, <<"N","o","v">>, <<"D","e","c">> >>
WeekdayLabels == << <<"S","u","n">>, <<"M","o","n">>, <<"T","u","e">>, <<"W","e","d">>,
                    <<"T","h","u">>, <<"F","r","i">>, <<"S","a","t">> >>
DefaultCustomerLabels ==
    << <<"J","o","h","n"," ","B","r","o","w","n">>,
       <<"P","a","u","l"," ","N","a","s","h">>,
       <<"L","a","u","r","a"," ","G","r","o","s","s">>,
       <<"J","u","d","i","t","h"," ","S","i","m","m","o","n","s">>,
       <<"K","r","i","s","t","i","n","e"," ","B","a","r","r","e","t","t">> >>

\* the eight literal category entries of the defaults
DefaultCategories ==
    << [name |-> <<"S","o","f","t"," ","D","r","i","n","k">>, value |-> Num(216216)],
       [name |-> <<"S","p","o","r","t","s"," ","D","r","i","n","k">>, value |-> Num(317424)],
       [name |-> <<"T","e","a">>, value |-> Num(67414)],
       [name |-> <<"W","a","t","e","r">>, value |-> Num(325210)],
       [name |-> <<"E","n","e","r","g","y"," ","D","r","i","n","k">>, value |-> Num(74073)],
       [name |-> <<"C","o","f","f","e","e">>, value |-> Num(142232)],
       [name |-> <<"A","l","c","o","h","o","l","i","c"," ","B","e","v","e","r","a","g","e">>,
        value |-> Num(86449)],
       [name |-> <<"J","u","i","c","e">>, value |-> Num(42455)] >>

DefaultKPI ==
    [cogs |-> Num(3100000), revenue |-> Num(5400000), profit |-> Num(2300000),
     profitMargin |-> Rat(4218, 100)]
DefaultGender == [male |-> F64FromRatio(5147, 100), female |-> F64FromRatio(4853, 100)]
DefaultAge ==
    [labels |-> AgeLabels,
     data |-> <<Rat(412, 10), Rat(727, 10), Rat(4215, 10), Rat(5041, 10), Num(598)>>]
DefaultCustomers ==
    [labels |-> DefaultCustomerLabels, data |-> <<Num(8), Num(8), Num(7), Num(7), Num(7)>>]
DefaultTrends ==
    [labels |-> MonthLabels,
     data |-> <<Rat(774, 100), Rat(774, 100), Rat(890, 100), Rat(840, 100), Rat(895, 100),
                Rat(795, 100), Rat(908, 100), Rat(827, 100), Rat(829, 100), Rat(837, 100),
                Rat(781, 100), Num(0)>>]
DefaultWeekday ==
    [labels |-> WeekdayLabels,
     data |-> <<Rat(3134, 10), Rat(3243, 10), Rat(3242, 10), Rat(3136, 10), Rat(3407, 10),
                Rat(3196, 10), Rat(3325, 10)>>]

\* the value generateDefaultData() builds
DefaultBundle ==
    [kpi |-> DefaultKPI, gender |-> DefaultGender, age |-> DefaultAge,
     customers |-> DefaultCustomers, trends |-> DefaultTrends,
     weekday |-> DefaultWeekday, categories |-> DefaultCategories]

----------------------------------------------------------------------------
(* findColumn and the column classification *)

\* columns.find(col => col.toLowerCase().includes(name.toLowerCase())):
\* the first such column, or Undefined
FindFirst(columns, name) ==
    LET hit(i) == Includes(ToLowerCase(columns[i]), ToLowerCase(name))
    IN IF \E i \in 1..Len(columns) : hit(i)
       THEN JSStr(columns[CHOOSE i \in 1..Len(columns) :
                              hit(i) /\ \A j \in 1..(i - 1) : ~hit(j)])
       ELSE Undefined

\* a variant of findColumn that scans the columns first: the first column
\* that contains any of the names
findColumnByColumn(columns, possibleNames) ==
    LET hit(i) == \E p \in 1..Len(possibleNames) :
                     Includes(ToLowerCase(columns[i]), ToLowerCase(possibleNames[p]))
    IN IF \E i \in 1..Len(columns) : hit(i)
       THEN JSStr(columns[CHOOSE i \in 1..Len(columns) :
                              hit(i) /\ \A j \in 1..(i - 1) : ~hit(j)])
       ELSE Null

\* findColumn(columns, possibleNames): a JS string, or Null
RECURSIVE findColumn(_, _)
findColumn(columns, possibleNames) ==
    IF possibleNames = <<>> THEN Null
    ELSE LET found == FindFirst(columns, Head(possibleNames))
         IN IF Truthy(found) THEN found ELSE findColumn(columns, Tail(possibleNames))

\* a variant of FirstRow that takes the last row of an array
FirstRowIsLastRow(d) ==
    IF d.t = "array" /\ Len(d.a) > 0 THEN d.a[Len(d.a)] ELSE GetProp(d, <<"0">>)

\* data[0]
FirstRow(d) == GetProp(d, <<"0">>)

IsNumericValue(value) == value.t = "number" \/ ~IsNaN(ParseFloat(value))
IsStringValue(value) == value.t = "string"

\* Object.keys(data[0]) can be taken (it raises on null and undefined)
HasKeys(d) == FirstRow(d).t \notin {"null", "undefined", "threw"}

\* numericColumns of processDataForDashboard, for HasKeys(d)
NumericColumns(d) ==
    LET row == FirstRow(d)
        numericKey(key) == IsNumericValue(GetProp(row, key))
    IN SelectSeq(ObjectKeys(row), numericKey)

\* categoricalColumns of processDataForDashboard, for HasKeys(d)
CategoricalColumns(d) ==
    LET row == FirstRow(d)
        stringKey(key) == IsStringValue(GetProp(row, key))
    IN SelectSeq(ObjectKeys(row), stringKey)

----------------------------------------------------------------------------
(* Helpers shared by the aggregators *)

Ok(v) == [t |-> "ok", v |-> v]

\* data.forEach / data.reduce run to the end and every row[col] can be read:
\* data is an array (the methods exist) and no row is null or undefined
RowsReadable(d) ==
    /\ d.t = "array"
    /\ \A i \in 1..Len(d.a) : d.a[i].t \notin {"null", "undefined"}

\* data.reduce((sum, row) => sum + (parseFloat(row[col]) || 0), 0)
RECURSIVE SumColumnTo(_, _, _)
SumColumnTo(rows, col, k) ==
    IF k = 0 THEN Num(0)
    ELSE Add(SumColumnTo(rows, col, k - 1), OrZero(ParseFloat(GetProp(rows[k], col))))

\* a variant of SumColumn that assigns instead of accumulating
SumColumnLastRow(d, col) ==
    IF RowsReadable(d)
    THEN Ok(IF Len(d.a) = 0 THEN Num(0)
            ELSE OrZero(ParseFloat(GetProp(d.a[Len(d.a)], col))))
    ELSE Threw

SumColumn(d, col) ==
    IF RowsReadable(d) THEN Ok(SumColumnTo(d.a, col, Len(d.a))) ELSE Threw

S___proto__ == <<"_","_","p","r","o","t","o","_","_">>
S_constructor == <<"c","o","n","s","t","r","u","c","t","o","r">>
S_Object == <<"O","b","j","e","c","t">>

\* the names of the methods an object literal inherits from Object.prototype
ObjectPrototypeMethods ==
    {<<"t","o","S","t","r","i","n","g">>,
     <<"t","o","L","o","c","a","l","e","S","t","r","i","n","g">>,
     <<"v","a","l","u","e","O","f">>,
     <<"h","a","s","O","w","n","P","r","o","p","e","r","t","y">>,
     <<"i","s","P","r","o","t","o","t","y","p","e","O","f">>,
     <<"p","r","o","p","e","r","t","y","I","s","E","n","u","m","e","r","a","b","l","e">>}

\* the value of a key that is not an own property of an object literal {}:
\* what Object.prototype holds under it, or Undefined
InheritedProp(key) ==
    IF key = S___proto__ THEN JSObj(<<>>)
    ELSE IF key = S_constructor THEN JSFunction(S_Object)
    ELSE IF key \in ObjectPrototypeMethods THEN JSFunction(key)
    ELSE Undefined

\* obj[key] for an object literal with the given own entries
Lookup(entries, key) ==
    IF \E j \in 1..Len(entries) : entries[j].k = key
    THEN entries[CHOOSE j \in 1..Len(entries) : entries[j].k = key].v
    ELSE InheritedProp(key)

\* obj[key] = (obj[key] || 0) + value on an insertion-ordered entry list.
\* Assigning a primitive to __proto__ creates no property.
AddToKey(entries, key, value) ==
    IF \E j \in 1..Len(entries) : entries[j].k = key
    THEN LET j == CHOOSE j \in 1..Len(entries) : entries[j].k = key
         IN [entries EXCEPT ![j].v = Plus(OrZero(@), value)]
    ELSE IF key = S___proto__ THEN entries
    ELSE Append(entries, [k |-> key, v |-> Plus(OrZero(InheritedProp(key)), value)])

\* Object.entries(obj): the entries in property order
EntriesOf(entries) ==
    LET keys == OwnKeys(entries)
    IN [i \in 1..Len(keys) |->
            entries[CHOOSE j \in 1..Len(entries) : entries[j].k = keys[i]]]

\* one insertion step of a stable descending sort: e goes after every
\* element whose value is not smaller.  The comparator b[1] - a[1] is NaN,
\* which counts as +0, when a value does not convert to a number; the order
\* the engine gives such an entry among others is implementation-defined.
RECURSIVE InsertDesc(_, _)
InsertDesc(sorted, e) ==
    IF sorted = <<>> THEN <<e>>
    ELSE IF Gt(ToNumber(e.v), ToNumber(Head(sorted).v)) THEN <<e>> \o sorted
    ELSE <<Head(sorted)>> \o InsertDesc(Tail(sorted), e)

\* entries.sort((a, b) => b[1] - a[1]), a stable sort
RECURSIVE SortDesc(_)
SortDesc(entries) ==
    IF entries = <<>> THEN <<>>
    ELSE InsertDesc(SortDesc(SubSeq(entries, 1, Len(entries) - 1)), entries[Len(entries)])

\* array.slice(0, n)
Slice(seq, n) == SubSeq(seq, 1, IF Len(seq) < n THEN Len(seq) ELSE n)

\* the groups summed by analyzeCustomers and analyzeCategories: rows with a
\* falsy key are skipped
RECURSIVE GroupSums(_, _, _, _)
GroupSums(rows, keyCol, valueCol, k) ==
    IF k = 0 THEN <<>>
    ELSE LET acc == GroupSums(rows, keyCol, valueCol, k - 1)
             key == GetProp(rows[k], keyCol)
             value == OrZero(ParseFloat(GetProp(rows[k], valueCol)))
         IN IF Truthy(key) THEN AddToKey(acc, JSToString(key), value) ELSE acc

----------------------------------------------------------------------------
(* Dates: new Date(v), isNaN(date), toLocaleString('default', ...) *)

DaysFromCivil(y0, m, dd) ==
    LET y == IF m <= 2 THEN y0 - 1 ELSE y0
        era == y \div 400
        yoe == y - era * 400
        doy == ((153 * (IF m > 2 THEN m - 3 ELSE m + 9) + 2) \div 5) + dd - 1
        doe == yoe * 365 + (yoe \div 4) - (yoe \div 100) + doy
    IN era * 146097 + doe - 719468

\* month (1..12) of the day z days after 1970-01-01
MonthOfDays(z0) ==
    LET z == z0 + 719468
        era == z \div 146097
        doe == z - era * 146097
        yoe == (doe - (doe \div 1460) + (doe \div 36524) - (doe \div 146096)) \div 365
        doy == doe - (365 * yoe + (yoe \div 4) - (yoe \div 100))
        mp == (5 * doy + 2) \div 153
    IN IF mp < 10 THEN mp + 3 ELSE mp - 9

\* day of the week (0 = Sunday) of the day z days after 1970-01-01, a Thursday
WeekdayOfDays(z) == (z + 4) % 7

IsLeap(y) == (y % 4 = 0 /\ y % 100 # 0) \/ y % 400 = 0
DaysInMonth(y, m) ==
    IF m = 2 THEN (IF IsLeap(y) THEN 29 ELSE 28)
    ELSE IF m \in {4, 6, 9, 11} THEN 30 ELSE 31

InvalidDate == [valid |-> FALSE, days |-> 0]

\* Date.parse of a string: the ISO date-only form YYYY-MM-DD (UTC midnight).
\* Every other string is taken to be unparsable; the implementation-defined
\* fallback formats are not modelled.
ParseDateString(s) ==
    IF /\ Len(s) = 10
       /\ \A i \in {1, 2, 3, 4, 6, 7, 9, 10} : IsDigit(s[i])
       /\ s[5] = "-" /\ s[8] = "-"
    THEN LET y == DigitsVal(s, 1, 4)
             m == DigitsVal(s, 6, 2)
             dd == DigitsVal(s, 9, 2)
         IN IF m \in 1..12 /\ dd >= 1 /\ dd <= DaysInMonth(y, m)
            THEN [valid |-> TRUE, days |-> DaysFromCivil(y, m, dd)]
            ELSE InvalidDate
    ELSE InvalidDate

\* new Date(v) as the UTC day it falls on
NewDate(v) ==
    CASE v.t = "string" -> ParseDateString(v.s)
      [] v.t = "undefined" -> InvalidDate
      [] v.t = "null" -> [valid |-> TRUE, days |-> 0]
      [] v.t = "boolean" -> [valid |-> TRUE, days |-> 0]
      [] v.t = "number" ->
            IF IsNaN(v) THEN InvalidDate
            ELSE LET ms == IF v.n >= 0 THEN v.n \div v.d ELSE -((-v.n) \div v.d)
                 IN [valid |-> TRUE, days |-> ms \div 86400000]
      [] OTHER -> InvalidDate

ItMonthNames == << <<"g","e","n">>, <<"f","e","b">>, <<"m","a","r">>, <<"a","p","r">>,
                   <<"m","a","g">>, <<"g","i","u">>, <<"l","u","g">>, <<"a","g","o">>,
                   <<"s","e","t">>, <<"o","t","t">>, <<"n","o","v">>, <<"d","i","c">> >>
ItWeekdayNames == << <<"d","o","m">>, <<"l","u","n">>, <<"m","a","r">>, <<"m","e","r">>,
                     <<"g","i","o">>, <<"v","e","n">>, <<"s","a","b">> >>

\* date.toLocaleString('default', { month: 'short' }) in the host locale
MonthShort(loc, date) ==
    IF loc = "en-US" THEN MonthLabels[MonthOfDays(date.days)]
    ELSE ItMonthNames[MonthOfDays(date.days)]

\* date.toLocaleString('default', { weekday: 'short' }) in the host locale
WeekdayShort(loc, date) ==
    IF loc = "en-US" THEN WeekdayLabels[WeekdayOfDays(date.days) + 1]
    ELSE ItWeekdayNames[WeekdayOfDays(date.days) + 1]

----------------------------------------------------------------------------
(* The seven aggregators.  Each yields Ok(view) or Threw. *)

\* the record calculateKPIs returns for the totals revenue and cost
KPIRecord(revenue, cost) ==
    [cogs |-> cost, revenue |-> revenue, profit |-> Sub(revenue, cost),
     profitMargin |-> IF Gt(revenue, Num(0))
                      THEN Mul(Div(Sub(revenue, cost), revenue), Num(100))
                      ELSE Rat(4218, 100)]

\* a variant of ColumnTotalOr without the fallback constant
ColumnTotalOrZero(d, col, fallback) ==
    IF Truthy(col) THEN SumColumn(d, col.s) ELSE Ok(Num(0))

\* col ? data.reduce(...) : fallback
ColumnTotalOr(d, col, fallback) ==
    IF Truthy(col) THEN SumColumn(d, col.s) ELSE Ok(fallback)

KPIOfTotals(revenue, cost) ==
    IF revenue = Threw \/ cost = Threw THEN Threw
    ELSE Ok(KPIRecord(revenue.v, cost.v))

calculateKPIs(d, numericColumns) ==
    IF Len(numericColumns) = 0 THEN Ok(DefaultKPI)
    ELSE KPIOfTotals(
            ColumnTotalOr(d, findColumn(numericColumns,
                                        <<S_revenue, S_sales, S_total, S_amount>>),
                          Num(5400000)),
            ColumnTotalOr(d, findColumn(numericColumns, <<S_cost, S_cogs, S_expense>>),
                          Num(3100000)))

\* (row[genderCol] || '') of analyzeGender
GenderOperand(row, genderCol) ==
    LET g == GetProp(row, genderCol)
    IN IF Truthy(g) THEN g ELSE JSStr(<<>>)

\* a variant of IsMaleRow that asks for the word
IsMaleRowByWord(row, genderCol) ==
    Includes(ToLowerCase(GenderOperand(row, genderCol).s), S_male)

IsMaleRow(row, genderCol) ==
    LET gender == ToLowerCase(GenderOperand(row, genderCol).s)
    IN Includes(gender, S_m) \/ Includes(gender, S_male)

IsFemaleRow(row, genderCol) ==
    LET gender == ToLowerCase(GenderOperand(row, genderCol).s)
    IN /\ ~IsMaleRow(row, genderCol)
       /\ (Includes(gender, S_f) \/ Includes(gender, S_female))

\* a variant of GenderShares without the scaling to percent
GenderSharesFraction(male, female) ==
    IF male + female > 0
    THEN [male |-> F64FromRatio(male, male + female),
          female |-> F64FromRatio(female, male + female)]
    ELSE [male |-> F64FromRatio(5147, 100), female |-> F64FromRatio(4853, 100)]

\* the percentages analyzeGender returns for the two counts
GenderShares(male, female) ==
    IF male + female > 0
    THEN [male |-> F64Times(F64FromRatio(male, male + female), 100),
          female |-> F64Times(F64FromRatio(female, male + female), 100)]
    ELSE [male |-> F64FromRatio(5147, 100), female |-> F64FromRatio(4853, 100)]

analyzeGender(d, categoricalColumns) ==
    LET genderCol == findColumn(categoricalColumns, <<S_gender, S_sex>>)
    IN IF ~Truthy(genderCol) THEN Ok(DefaultGender)
       ELSE IF ~RowsReadable(d) THEN Threw
       \* .toLowerCase() exists on strings only
       ELSE IF \E i \in 1..Len(d.a) : GenderOperand(d.a[i], genderCol.s).t # "string"
            THEN Threw
       ELSE Ok(GenderShares(
                Cardinality({i \in 1..Len(d.a) : IsMaleRow(d.a[i], genderCol.s)}),
                Cardinality({i \in 1..Len(d.a) : IsFemaleRow(d.a[i], genderCol.s)})))

\* a variant of AgeGroupOf whose bins end below their upper bounds
AgeGroupOfExclusive(row, ageCol) ==
    LET age == OrZero(ParseInt(GetProp(row, ageCol)))
    IN IF ~Le(Num(20), age) THEN 1
       ELSE IF ~Le(Num(30), age) THEN 2
       ELSE IF ~Le(Num(40), age) THEN 3
       ELSE IF ~Le(Num(50), age) THEN 4
       ELSE 5

\* a variant of AgeGroupOf that counts no row whose age is negative
AgeGroupOfNatural(row, ageCol) ==
    LET age == OrZero(ParseInt(GetProp(row, ageCol)))
    IN IF ~Le(Num(0), age) THEN 0
       ELSE IF Le(age, Num(20)) THEN 1
       ELSE IF Le(age, Num(30)) THEN 2
       ELSE IF Le(age, Num(40)) THEN 3
       ELSE IF Le(age, Num(50)) THEN 4
       ELSE 5

\* index (1..5) of the age group a row is counted in
AgeGroupOf(row, ageCol) ==
    LET age == OrZero(ParseInt(GetProp(row, ageCol)))
    IN IF Le(age, Num(20)) THEN 1
       ELSE IF Le(age, Num(30)) THEN 2
       ELSE IF Le(age, Num(40)) THEN 3
       ELSE IF Le(age, Num(50)) THEN 4
       ELSE 5

\* a variant of analyzeAge that looks for the Age column among all columns of
\* the first row
analyzeAgeOfAnyColumn(d, categoricalColumns) ==
    LET ageCol == findColumn(ObjectKeys(FirstRow(d)), <<S_age>>)
    IN IF ~Truthy(ageCol) THEN Ok(DefaultAge)
       ELSE IF ~RowsReadable(d) THEN Threw
       ELSE Ok([labels |-> AgeLabels,
                data |-> [g \in 1..5 |->
                    Num(Cardinality({i \in 1..Len(d.a) : AgeGroupOf(d.a[i], ageCol.s) = g}))]])

analyzeAge(d, categoricalColumns) ==
    LET ageCol == findColumn(categoricalColumns, <<S_age>>)
    IN IF ~Truthy(ageCol) THEN Ok(DefaultAge)
       ELSE IF ~RowsReadable(d) THEN Threw
       ELSE Ok([labels |-> AgeLabels,
                data |-> [g \in 1..5 |->
                    Num(Cardinality({i \in 1..Len(d.a) : AgeGroupOf(d.a[i], ageCol.s) = g}))]])

\* labels and data (in units of 100000) of the sorted top entries
CustomersView(sorted) ==
    [labels |-> [i \in 1..Len(sorted) |-> sorted[i].k],
     data |-> [i \in 1..Len(sorted) |-> Over(sorted[i].v, Num(100000))]]

analyzeCustomers(d, categoricalColumns, numericColumns) ==
    LET customerCol == findColumn(categoricalColumns, <<S_customer, S_name, S_client>>)
        valueCol == findColumn(numericColumns,
                               <<S_revenue, S_sales, S_total, S_amount, S_profit>>)
    IN IF ~Truthy(customerCol) \/ ~Truthy(valueCol) THEN Ok(DefaultCustomers)
       ELSE IF ~RowsReadable(d) THEN Threw
       ELSE Ok(CustomersView(Slice(SortDesc(EntriesOf(
                    GroupSums(d.a, customerCol.s, valueCol.s, Len(d.a)))), 5)))

\* the bucket a date falls in: its short month or its short weekday name
BucketName(part, loc, date) ==
    IF part = "month" THEN MonthShort(loc, date) ELSE WeekdayShort(loc, date)

\* monthlyData / weekdayData after the forEach: the value column summed per
\* bucket name over the rows whose date is valid, starting from init
RECURSIVE DateSums(_, _, _, _, _, _, _)
DateSums(rows, dateCol, valueCol, part, loc, init, k) ==
    IF k = 0 THEN init
    ELSE LET acc == DateSums(rows, dateCol, valueCol, part, loc, init, k - 1)
             date == NewDate(GetProp(rows[k], dateCol))
             value == OrZero(ParseFloat(GetProp(rows[k], valueCol)))
         IN IF date.valid THEN AddToKey(acc, BucketName(part, loc, date), value) ELSE acc

\* months.map(m => monthlyData[m] || 0) under the twelve English labels
TrendsView(monthlyData) ==
    [labels |-> MonthLabels,
     data |-> [i \in 1..12 |-> OrZero(Lookup(monthlyData, MonthLabels[i]))]]

analyzeTrends(d, categoricalColumns, numericColumns, loc) ==
    LET dateCol == findColumn(categoricalColumns, <<S_date, S_time, S_month>>)
        valueCol == findColumn(numericColumns, <<S_revenue, S_sales, S_total, S_amount>>)
    IN IF ~Truthy(dateCol) \/ ~Truthy(valueCol) THEN Ok(DefaultTrends)
       ELSE IF ~RowsReadable(d) THEN Threw
       ELSE Ok(TrendsView(DateSums(d.a, dateCol.s, valueCol.s, "month", loc, <<>>, Len(d.a))))

\* Object.keys(weekdayData) and Object.values(weekdayData)
WeekdayView(weekdayData) ==
    [labels |-> [i \in 1..Len(weekdayData) |-> weekdayData[i].k],
     data |-> [i \in 1..Len(weekdayData) |-> weekdayData[i].v]]

analyzeWeekday(d, categoricalColumns, numericColumns, loc) ==
    LET dateCol == findColumn(categoricalColumns, <<S_date, S_time>>)
        valueCol == findColumn(numericColumns, <<S_revenue, S_sales, S_total, S_amount>>)
        zeros == [i \in 1..7 |-> [k |-> WeekdayLabels[i], v |-> Num(0)]]
    IN IF ~Truthy(dateCol) \/ ~Truthy(valueCol) THEN Ok(DefaultWeekday)
       ELSE IF ~RowsReadable(d) THEN Threw
       ELSE Ok(WeekdayView(EntriesOf(
                    DateSums(d.a, dateCol.s, valueCol.s, "weekday", loc, zeros, Len(d.a)))))

\* .map(([name, value]) => ({ name, value }))
CategoriesView(sorted) ==
    [i \in 1..Len(sorted) |-> [name |-> sorted[i].k, value |-> sorted[i].v]]

analyzeCategories(d, categoricalColumns, numericColumns) ==
    LET categoryCol == findColumn(categoricalColumns, <<S_category, S_product, S_type>>)
        valueCol == findColumn(numericColumns, <<S_revenue, S_sales, S_total, S_amount>>)
    IN IF ~Truthy(categoryCol) \/ ~Truthy(valueCol) THEN Ok(DefaultCategories)
       ELSE IF ~RowsReadable(d) THEN Threw
       ELSE Ok(CategoriesView(Slice(SortDesc(EntriesOf(
                    GroupSums(d.a, categoryCol.s, valueCol.s, Len(d.a)))), 8)))

----------------------------------------------------------------------------
(* processDataForDashboard *)

ViewNames == <<"kpi", "gender", "age", "customers", "trends", "weekday", "categories">>

AggregatorNames ==
    [kpi |-> "calculateKPIs", gender |-> "analyzeGender", age |-> "analyzeAge",
     customers |-> "analyzeCustomers", trends |-> "analyzeTrends",
     weekday |-> "analyzeWeekday", categories |-> "analyzeCategories"]

NoViews == [name \in {ViewNames[i] : i \in 1..Len(ViewNames)} |-> NotRun]

\* the objects the body of an aggregator assigns into or sorts in place: its
\* accumulator object and the array of entries it builds from it; a variant
\* in which analyzeCustomers sorts the rows of data in place
WrittenBySortingData(name) ==
    CASE name = "kpi" -> {}
      [] name = "gender" -> {"counts"}
      [] name = "age" -> {"ageGroups"}
      [] name = "customers" -> {"customerValues", "data"}
      [] name = "trends" -> {"monthlyData"}
      [] name = "weekday" -> {"weekdayData"}
      [] name = "categories" -> {"categoryValues", "entries"}

\* the objects the body of an aggregator assigns into or sorts in place: its
\* accumulator object and the array of entries it builds from it
WrittenBy(name) ==
    CASE name = "kpi" -> {}
      [] name = "gender" -> {"counts"}
      [] name = "age" -> {"ageGroups"}
      [] name = "customers" -> {"customerValues", "entries"}
      [] name = "trends" -> {"monthlyData"}
      [] name = "weekday" -> {"weekdayData"}
      [] name = "categories" -> {"categoryValues", "entries"}

\* the objects assigned into by the aggregators that were entered
WrittenDuring(vs) ==
    UNION {WrittenBy(ViewNames[i]) :
              i \in {j \in 1..Len(ViewNames) : vs[ViewNames[j]].t # "notrun"}}

\* a variant of IsNoData without the !data test
IsNoDataLengthOnly(d) == LengthOf(d) = Num(0)

\* if (!data || data.length === 0)
IsNoData(d) == ~Truthy(d) \/ LengthOf(d) = Num(0)

\* the aggregator call that computes the view of a name
Aggregate(name, d, numericColumns, categoricalColumns, loc) ==
    CASE name = "kpi" -> calculateKPIs(d, numericColumns)
      [] name = "gender" -> analyzeGender(d, categoricalColumns)
      [] name = "age" -> analyzeAge(d, categoricalColumns)
      [] name = "customers" -> analyzeCustomers(d, categoricalColumns, numericColumns)
      [] name = "trends" -> analyzeTrends(d, categoricalColumns, numericColumns, loc)
      [] name = "weekday" -> analyzeWeekday(d, categoricalColumns, numericColumns, loc)
      [] name = "categories" -> analyzeCategories(d, categoricalColumns, numericColumns)

\* the object literal { kpi: ..., ..., categories: ... }: its properties are
\* evaluated in order, from the i-th on, and the first aggregator that raises
\* ends the evaluation
RECURSIVE ViewsFrom(_, _, _, _, _, _)
ViewsFrom(i, vs, d, numericColumns, categoricalColumns, loc) ==
    IF i > Len(ViewNames) \/ (i > 1 /\ vs[ViewNames[i - 1]].t # "ok") THEN vs
    ELSE ViewsFrom(i + 1,
                   [vs EXCEPT ![ViewNames[i]] =
                        Aggregate(ViewNames[i], d, numericColumns, categoricalColumns, loc)],
                   d, numericColumns, categoricalColumns, loc)

ComputeViews(d, loc) ==
    ViewsFrom(1, NoViews, d, NumericColumns(d), CategoricalColumns(d), loc)

\* the record assembled from seven views that were all computed
BundleOf(vs) ==
    [kpi |-> vs.kpi.v, gender |-> vs.gender.v, age |-> vs.age.v,
     customers |-> vs.customers.v, trends |-> vs.trends.v,
     weekday |-> vs.weekday.v, categories |-> vs.categories.v]

\* a variant of generateDefaultData that builds the default object once and
\* returns that same object afterwards
generateDefaultDataShared(h) ==
    IF h = <<>> THEN [ref |-> 1, heap |-> <<DefaultBundle>>] ELSE [ref |-> 1, heap |-> h]

\* generateDefaultData(): a new object holding the default values, allocated
\* in heap h
generateDefaultData(h) ==
    [ref |-> Len(h) + 1, heap |-> Append(h, DefaultBundle)]

\* const result = { ... }: a new object, allocated in heap h
NewResult(h, bundle) ==
    [ref |-> Len(h) + 1, heap |-> Append(h, bundle)]

\* the functions entered by a call that classified the columns and yielded vs
Entered(vs) ==
    LET ran == SelectSeq(ViewNames, LAMBDA name : vs[name].t # "notrun")
    IN <<"processDataForDashboard", "Object.keys">>
            \o [i \in 1..Len(ran) |-> AggregatorNames[ran[i]]]

\* return of the record o allocated for the outcome
Returned(entered, vs, o) ==
    [calls |-> entered, views |-> vs, out |-> Ok(o.ref), heap |-> o.heap]

\* the end of a call whose aggregators yielded vs
OutcomeOf(vs, h) ==
    IF \A i \in 1..Len(ViewNames) : vs[ViewNames[i]].t = "ok"
    THEN Returned(Entered(vs), vs, NewResult(h, BundleOf(vs)))
    ELSE [calls |-> Entered(vs), views |-> vs, out |-> Threw, heap |-> h]

\* processDataForDashboard(data) run in heap h under host locale loc:
\*   calls - the functions entered, in order
\*   views - what each aggregator yielded
\*   out   - Ok(reference to the returned record) or Threw
\*   heap  - the heap afterwards
processDataForDashboard(d, loc, h) ==
    IF IsNoData(d)
    THEN Returned(<<"processDataForDashboard", "generateDefaultData">>, NoViews,
                  generateDefaultData(h))
    ELSE IF ~HasKeys(d)
    THEN [calls |-> <<"processDataForDashboard", "Object.keys">>,
          views |-> NoViews, out |-> Threw, heap |-> h]
    ELSE OutcomeOf(ComputeViews(d, loc), h)

----------------------------------------------------------------------------
(* Inputs *)

\* most rows of a generated dataset
MaxRows == 2
\* most rows of a generated dataset of gender rows
MaxGenderRows == 3
\* most calls of processDataForDashboard in one session
MaxCalls == 2
\* most rows of a generated dataset of customer rows
MaxCustomerRows == 6
\* most rows of a generated dataset of category rows
MaxCategoryRows == 9

Locales == {"en-US", "it-IT"}

C_Revenue == <<"R","e","v","e","n","u","e">>
C_Cost == <<"C","o","s","t">>
C_Units == <<"U","n","i","t","s">>
C_Region == <<"R","e","g","i","o","n">>
C_Gender == <<"G","e","n","d","e","r">>
C_Date == <<"D","a","t","e">>
C_Age == <<"A","g","e">>
C_Customer == <<"C","u","s","t","o","m","e","r">>
C_Category == <<"C","a","t","e","g","o","r","y">>
C_Month == <<"M","o","n","t","h">>
C_Total == <<"T","o","t","a","l">>

V_Male == JSStr(<<"M","a","l","e">>)
V_Female == JSStr(<<"F","e","m","a","l","e">>)
V_M == JSStr(<<"M">>)
V_F == JSStr(<<"F">>)
V_x == JSStr(<<"x">>)
V_EU == JSStr(<<"E","U">>)
V_12abc == JSStr(<<"1","2","a","b","c">>)
V_7p5 == JSStr(<<"7",".","5">>)
V_5x == JSStr(<<"5","x">>)
V_123 == JSStr(<<"1","2","3">>)
V_Tea == JSStr(<<"T","e","a">>)
V_Water == JSStr(<<"W","a","t","e","r">>)
V_2024_03_15 == JSStr(<<"2","0","2","4","-","0","3","-","1","5">>)
V_2024_01_07 == JSStr(<<"2","0","2","4","-","0","1","-","0","7">>)

\* a key a row does not have
Absent == [t |-> "absent"]

\* the row with the given columns, in order, leaving out the absent ones
MkRow(cols, vals) ==
    JSObj(SelectSeq([i \in 1..Len(cols) |-> [k |-> cols[i], v |-> vals[i]]],
                    LAMBDA e : e.v # Absent))

\* the datasets of 1..max rows drawn from Rows
DatasetsOf(Rows, max) ==
    UNION {{JSArr(a) : a \in [1..n -> Rows]} : n \in 1..max}

\* dataset-level shapes: absent, falsy, empty, non-array, first row null or
\* without keys
ShapeInputs ==
    {Undefined, Null, JSArr(<<>>), JSStr(<<>>), Num(0), JSBool(FALSE),
     Num(5), JSBool(TRUE), V_5x, V_x, JSObj(<<>>),
     JSObj(<<[k |-> C_Revenue, v |-> Num(100)]>>),
     JSArr(<<Null>>), JSArr(<<JSObj(<<>>)>>), JSArr(<<JSObj(<<>>), JSObj(<<>>)>>)}

\* rows with a Revenue and a Cost column
KPIRows ==
    {MkRow(<<C_Revenue, C_Cost>>, <<r, c>>) :
        r \in {Num(100), Num(-250), V_12abc, Null},
        c \in {Num(40), V_7p5, Absent}}

\* rows in which no column name matches a KPI role
OtherRows ==
    {MkRow(<<C_Units, C_Region>>, <<u, g>>) :
        u \in {Num(3), Absent}, g \in {V_EU, Absent}}

\* rows with a Revenue and a Gender column
GenderRows ==
    {MkRow(<<C_Revenue, C_Gender>>, <<Num(100), g>>) :
        g \in {V_Male, V_Female, V_M, V_F, V_x, Num(5), Null, Absent}}

\* rows with a Date and a Revenue column
DateRows ==
    {MkRow(<<C_Date, C_Revenue>>, <<dt, Num(100)>>) :
        dt \in {V_2024_03_15, V_2024_01_07, V_x, Null, Absent}}

\* rows with a Month and a Revenue column
MonthRows ==
    {MkRow(<<C_Month, C_Revenue>>, <<m, Num(100)>>) : m \in {V_2024_03_15, V_x}}

\* the ages at and next to the bin boundaries, a non-number, a native number
\* and a missing cell
AgeValues ==
    {JSStr(<<"2","0">>), JSStr(<<"2","1">>), JSStr(<<"3","0">>), JSStr(<<"3","1">>),
     JSStr(<<"4","0">>), JSStr(<<"4","1">>), JSStr(<<"5","0">>), JSStr(<<"5","1">>),
     V_x, Num(35), Absent}

\* rows with an Age and a Revenue column
AgeRows == {MkRow(<<C_Age, C_Revenue>>, <<a, Num(100)>>) : a \in AgeValues}

\* rows with a Category and a Revenue column
CategoryRows ==
    {MkRow(<<C_Category, C_Revenue>>, <<c, r>>) :
        c \in {V_Tea, V_Water, Null}, r \in {Num(100), Num(200)}}

\* first-row values of every kind the classification tells apart
SchemaRows ==
    {MkRow(<<C_Units, C_Region>>, <<u, V_EU>>) :
        u \in {V_123, V_12abc, JSBool(TRUE), Null}}

\* the customer of the i-th row of a customer dataset when it is a new one:
\* plain names and names that are array indices
CustomerNames ==
    << <<"A">>, <<"1","0">>, <<"2">>, <<"B">>, <<"C">>, <<"D">>, <<"E">> >>

\* what the i-th new customer is billed: equal and different amounts
CustomerAmounts == <<Num(100), Num(100), Num(100), Num(300), Num(300), Num(200), Num(200)>>

\* the i-th row of a customer dataset: a new customer with its amount, or
\* the first customer again with 100
CustomerRow(i, again) ==
    IF again THEN MkRow(<<C_Customer, C_Revenue>>, <<JSStr(CustomerNames[1]), Num(100)>>)
    ELSE MkRow(<<C_Customer, C_Revenue>>, <<JSStr(CustomerNames[i]), CustomerAmounts[i]>>)

CustomerInputs ==
    UNION {{JSArr([i \in 1..n |-> CustomerRow(i, f[i])]) : f \in [1..n -> BOOLEAN]} :
              n \in 1..MaxCustomerRows}

\* rows whose customer is empty or named like a member of Object.prototype
OddNameRows ==
    {MkRow(<<C_Customer, C_Revenue>>, <<JSStr(c), Num(100)>>) :
        c \in {<<>>, S___proto__, S_constructor}}

\* the category of the i-th row of a category dataset when it is a new one:
\* the first two differ in letter case only
CategoryNames ==
    << <<"T","e","a">>, <<"t","e","a">>, <<"W","a","t","e","r">>, <<"C","o","l","a">>,
       <<"J","u","i","c","e">>, <<"M","i","l","k">>, <<"B","e","e","r">>,
       <<"W","i","n","e">>, <<"S","o","d","a">>, <<"C","o","c","o","a">> >>

\* what the i-th new category sells
CategoryAmounts ==
    <<Num(300), Num(100), Num(500), Num(200), Num(900), Num(400), Num(800),
      Num(600), Num(700), Num(1000)>>

\* the i-th row of a category dataset in which row j (if any) repeats the
\* first category with 150 and the other rows bring a new category each
CategoryRow(i, j) ==
    IF i = j THEN MkRow(<<C_Category, C_Revenue>>, <<JSStr(CategoryNames[1]), Num(150)>>)
    ELSE MkRow(<<C_Category, C_Revenue>>, <<JSStr(CategoryNames[i]), CategoryAmounts[i]>>)

CategoryInputs ==
    UNION {{JSArr([i \in 1..n |-> CategoryRow(i, j)]) : j \in {0} \cup 2..n} :
              n \in 1..MaxCategoryRows}

\* rows whose category is named like a member of Object.prototype
OddCategoryRows ==
    {MkRow(<<C_Category, C_Revenue>>, <<JSStr(c), Num(100)>>) :
        c \in {CategoryNames[1], S___proto__, S_constructor}}

\* rows whose first column matches a later name of the Revenue role than
\* their second column does
PriorityRows ==
    {MkRow(<<C_Total, C_Revenue>>, <<t, r>>) : t \in {Num(1), Num(2)}, r \in {Num(10), Absent}}

\* rows with a Revenue column and a Gender column that holds a boolean in
\* some rows
FlagRows ==
    {MkRow(<<C_Revenue, C_Gender>>, <<Num(100), g>>) :
        g \in {V_F, JSBool(TRUE), JSBool(FALSE)}}

\* rows whose age is negative, null or a number followed by letters
OddAgeRows ==
    {MkRow(<<C_Age, C_Revenue>>, <<a, Num(100)>>) :
        a \in {JSStr(<<"3","0">>), JSStr(<<"-","5">>), Null, V_12abc}}

EngineInputs ==
    ShapeInputs \cup DatasetsOf(KPIRows, MaxRows) \cup DatasetsOf(OtherRows, MaxRows)
        \cup DatasetsOf(GenderRows, MaxGenderRows) \cup DatasetsOf(DateRows, MaxRows)
        \cup DatasetsOf(MonthRows, MaxRows) \cup DatasetsOf(AgeRows, MaxRows)
        \cup DatasetsOf(CategoryRows, MaxRows) \cup DatasetsOf(SchemaRows, MaxRows)
        \cup CustomerInputs \cup DatasetsOf(OddNameRows, MaxRows)
        \cup DatasetsOf(PriorityRows, MaxRows) \cup DatasetsOf(FlagRows, MaxRows)
        \cup CategoryInputs \cup DatasetsOf(OddCategoryRows, MaxRows)
        \cup DatasetsOf(OddAgeRows, MaxRows)

\* the datasets of a session in which the engine is called repeatedly
SessionInputs ==
    {Null, JSArr(<<>>),
     JSArr(<<MkRow(<<C_Revenue, C_Gender>>, <<Num(100), V_F>>)>>),
     JSArr(<<MkRow(<<C_Revenue, C_Gender>>, <<Num(100), V_M>>),
             MkRow(<<C_Revenue, C_Gender>>, <<V_12abc, Num(5)>>)>>),
     JSArr(<<MkRow(<<C_Units, C_Region>>, <<Num(3), V_EU>>)>>)}

----------------------------------------------------------------------------
(* The state machine *)

Init ==
    /\ hostLocale \in Locales
    /\ data = Undefined
    /\ calls = <<>>
    /\ views = NoViews
    /\ result = NotRun
    /\ heap = <<>>
    /\ history = <<>>
    /\ written = {}
    /\ uploadedData = Null
    /\ loader = "idle"
    /\ dashboardData = Undefined
    /\ updates = 0
    /\ genderChart = Undefined
    /\ legends = <<>>
    /\ figureCards = 0

\* one call processDataForDashboard(d) by the page; the outcome is recorded
\* in history with the value the returned record holds on return
ProcessData(d) ==
    /\ Len(history) < MaxCalls
    /\ \E r \in {processDataForDashboard(d, hostLocale, heap)} :
          /\ data' = d
          /\ calls' = r.calls
          /\ views' = r.views
          /\ result' = r.out
          /\ heap' = r.heap
          /\ written' = WrittenDuring(r.views)
          /\ history' = Append(history,
                [arg |-> d,
                 out |-> IF r.out.t = "ok" THEN Ok(r.heap[r.out.v]) ELSE Threw])
    /\ UNCHANGED <<hostLocale, pageVars>>

\* the holder of a returned record writes into it: the arrays of the age view
\* are handed to the chart (chart.data.labels = dashboardData.age.labels),
\* which owns them from then on, here emptying them
MutateResult(ref) ==
    /\ ref \in 1..Len(heap)
    /\ heap[ref].age.data # <<>>
    /\ heap' = [heap EXCEPT ![ref].age = [labels |-> <<>>, data |-> <<>>]]
    /\ UNCHANGED <<hostLocale, data, calls, views, result, history, written, pageVars>>

\* a single call of the engine on any input
Next == \E d \in EngineInputs : history = <<>> /\ ProcessData(d)

Spec == Init /\ [][Next]_vars

\* a session: repeated calls, with the returned records changed in between
NextSession ==
    \/ \E d \in SessionInputs : ProcessData(d)
    \/ \E ref \in 1..MaxCalls : MutateResult(ref)

SpecSession == Init /\ [][NextSession]_vars

----------------------------------------------------------------------------
(* The page: loading the dataset and showing the result *)

\* the integer nearest to b * 2^e for e < 0, the larger one on a tie
NearestInteger(b, e) ==
    IF Len(b) < -e THEN 0
    ELSE BitsVal(SubSeq(b, 1, Len(b) + e)) + b[Len(b) + e + 1]

\* x * 100 for a binary64 x >= 0, to the nearest integer
Hundredths(x) ==
    IF x.sig = <<>> THEN 0
    ELSE IF x.exp >= 0
    THEN BitsVal(BitsMulFrom(x.sig, 100, Len(x.sig), 0, <<>>) \o Zeros(x.exp))
    ELSE NearestInteger(StripZeros(BitsMulFrom(x.sig, 100, Len(x.sig), 0, <<>>)), x.exp)

\* x.toFixed(2) for a binary64 x >= 0
ToFixed2(x) ==
    NatDigits(Hundredths(x) \div 100) \o <<".">> \o PadDigits(Hundredths(x), 2)

\* a stored item, given by what JSON.parse makes of its text (a value, or
\* Threw for text that is not JSON); the empty text is falsy
StoredItem(empty, json) == [t |-> "string", empty |-> empty, json |-> json]

\* if (storedData)
IsStored(item) == item # Null /\ ~item.empty

\* the values stored datasets parse to: rows with a Gender column, a row that
\* makes the engine raise, and values that are no dataset
PageRow(g) == MkRow(<<C_Revenue, C_Gender>>, <<Num(100), g>>)

PageRows == {PageRow(g) : g \in {V_M, V_F, V_x, Num(5)}}

PageDatasets ==
    DatasetsOf(PageRows, MaxRows)
        \cup {JSArr(<<PageRow(V_M), PageRow(V_F), PageRow(V_F)>>),
              Null, JSArr(<<>>), Num(5), JSBool(TRUE), JSArr(<<Null>>)}

StoredItems ==
    {Null, StoredItem(TRUE, Threw), StoredItem(FALSE, Threw)}
        \cup {StoredItem(FALSE, d) : d \in PageDatasets}

\* the bubbles of one dataset of the gender chart for one outcome of its 16
\* calls of Math.random(): x and y are in [0, 100), given in hundredths
Bubbles(xs, ys) == [i \in 1..8 |-> [x |-> xs[i], y |-> ys[i], r |-> 8]]

RandomDraws ==
    {Bubbles(<<0, 1250, 2500, 3750, 5000, 6250, 7500, 9999>>,
             <<9999, 7500, 6250, 5000, 3750, 2500, 1250, 0>>),
     Bubbles(<<5147, 5147, 5147, 5147, 5147, 5147, 5147, 5147>>,
             <<4853, 4853, 4853, 4853, 4853, 4853, 4853, 4853>>)}

\* the legend texts the page starts with
InitialLegend == <<"-">>

\* the try block of loadDashboardData on the stored item: JSON.parse raises
\* on text that is not JSON and parsedData.length raises on null; otherwise
\* the engine is called on the parsed value
EngineNotReached(h) == [reached |-> FALSE, out |-> Threw, heap |-> h]

EngineReached(r) ==
    [reached |-> TRUE, calls |-> r.calls, views |-> r.views, out |-> r.out,
     heap |-> r.heap]

TryStored(item, loc, h) ==
    IF item.json.t \in {"threw", "null"} THEN EngineNotReached(h)
    ELSE EngineReached(processDataForDashboard(item.json, loc, h))

\* dashboardData after the try and its catch: the engine's record, or a new
\* default record
AfterCatch(t) ==
    IF t.out.t = "ok" THEN [ref |-> t.out.v, heap |-> t.heap]
    ELSE generateDefaultData(t.heap)

\* legends[0].textContent and legends[1].textContent as updateGenderChart
\* writes them
GenderLegends(lg, gender) ==
    [lg EXCEPT ![1] = ToFixed2(gender.male) \o <<"%">>,
               ![2] = ToFixed2(gender.female) \o <<"%">>]

\* the text of a drawn coordinate, as a percentage
DrawText(c) == NatDigits(c \div 100) \o <<".">> \o PadDigits(c, 2) \o <<"%">>

\* a variant of updateGenderChart whose legends show where the first bubbles
\* were drawn
updateGenderChartShowingDraws(chart, lg, gender, male, female) ==
    IF chart = Undefined THEN [chart |-> chart, legends |-> lg]
    ELSE [chart |-> [male |-> male, female |-> female],
          legends |-> IF Len(lg) >= 2
                      THEN [lg EXCEPT ![1] = DrawText(male[1].x),
                                      ![2] = DrawText(female[1].x)]
                      ELSE lg]

\* updateGenderChart() for the gender view of dashboardData and the drawn
\* bubbles: the chart and the legend texts afterwards
updateGenderChart(chart, lg, gender, male, female) ==
    IF chart = Undefined THEN [chart |-> chart, legends |-> lg]
    ELSE [chart |-> [male |-> male, female |-> female],
          legends |-> IF Len(lg) >= 2 THEN GenderLegends(lg, gender) ELSE lg]

\* updateDashboard() for the record dashboardData refers to; of what it
\* shows, the gender chart and its legends are part of the state
UpdateDashboard(bundle, male, female) ==
    /\ updates' = updates + 1
    /\ genderChart' = updateGenderChart(genderChart, legends, bundle.gender,
                                        male, female).chart
    /\ legends' = updateGenderChart(genderChart, legends, bundle.gender,
                                    male, female).legends

\* the engine's variables after the try block
EngineAfter(t) ==
    IF t.reached
    THEN /\ data' = uploadedData.json
         /\ calls' = t.calls
         /\ views' = t.views
         /\ result' = t.out
         /\ written' = WrittenDuring(t.views)
         /\ history' = Append(history,
               [arg |-> uploadedData.json,
                out |-> IF t.out.t = "ok" THEN Ok(t.heap[t.out.v]) ELSE Threw])
    ELSE UNCHANGED <<data, calls, views, result, written, history>>

\* loadDashboardData(), run on DOMContentLoaded: with a stored item, up to
\* the end of updateDashboard(); without, up to the start of the request
LoadDashboardData ==
    /\ loader = "idle"
    /\ IF IsStored(uploadedData)
       THEN \E t \in {TryStored(uploadedData, hostLocale, heap)} :
            \E o \in {AfterCatch(t)} :
            \E male \in RandomDraws : \E female \in RandomDraws :
                /\ EngineAfter(t)
                /\ heap' = o.heap
                /\ dashboardData' = Ok(o.ref)
                /\ UpdateDashboard(o.heap[o.ref], male, female)
                /\ loader' = "done"
       ELSE /\ loader' = "fetching"
            /\ UNCHANGED <<engineVars, dashboardData, updates, genderChart, legends>>
    /\ UNCHANGED <<hostLocale, uploadedData, figureCards>>

\* catch (e) of fetchAutoVisualization
FetchCaught ==
    \E o \in {generateDefaultData(heap)} :
    \E male \in RandomDraws : \E female \in RandomDraws :
        /\ heap' = o.heap
        /\ dashboardData' = Ok(o.ref)
        /\ UpdateDashboard(o.heap[o.ref], male, female)
        /\ loader' = "done"
        /\ UNCHANGED <<hostLocale, data, calls, views, result, written, history,
                       uploadedData, figureCards>>

\* the request of fetchAutoVisualization settles: it is rejected (no server),
\* or answered with a status that is not ok, or with one that is
FetchSettles(outcome) ==
    /\ loader = "fetching"
    /\ CASE outcome = "rejected" -> FetchCaught
         [] outcome = "notOk" ->
               /\ loader' = "done"
               /\ UNCHANGED <<hostLocale, engineVars, uploadedData, dashboardData,
                              updates, genderChart, legends, figureCards>>
         [] outcome = "ok" ->
               /\ loader' = "reading"
               /\ UNCHANGED <<hostLocale, engineVars, uploadedData, dashboardData,
                              updates, genderChart, legends, figureCards>>

\* response.json() settles: the body is not JSON (or not an object), or it
\* is a result without success or figures, or one with figures, which
\* displayAutoFigures shows unless the page has no '.kpi-cards' element
BodySettles(outcome) ==
    /\ loader = "reading"
    /\ CASE outcome \in {"invalid", "displayRaised"} -> FetchCaught
         [] outcome = "noFigures" ->
               /\ loader' = "done"
               /\ UNCHANGED <<hostLocale, engineVars, uploadedData, dashboardData,
                              updates, genderChart, legends, figureCards>>
         [] outcome = "figures" ->
               /\ loader' = "done"
               /\ figureCards' = figureCards + 1
               /\ UNCHANGED <<hostLocale, engineVars, uploadedData, dashboardData,
                              updates, genderChart, legends>>

\* the page when its script has run and DOMContentLoaded is about to fire:
\* with or without a stored item, a gender chart and legend elements
InitPage ==
    /\ hostLocale \in Locales
    /\ data = Undefined
    /\ calls = <<>>
    /\ views = NoViews
    /\ result = NotRun
    /\ heap = <<>>
    /\ history = <<>>
    /\ written = {}
    /\ uploadedData \in StoredItems
    /\ loader = "idle"
    /\ dashboardData = Undefined
    /\ updates = 0
    /\ genderChart \in {Undefined} \cup {[male |-> m, female |-> m] : m \in RandomDraws}
    /\ legends \in {<<>>, <<InitialLegend, InitialLegend>>}
    /\ figureCards = 0

NextPage ==
    \/ LoadDashboardData
    \/ \E outcome \in {"rejected", "notOk", "ok"} : FetchSettles(outcome)
    \/ \E outcome \in {"invalid", "displayRaised", "noFigures", "figures"} :
          BodySettles(outcome)

SpecPage == InitPage /\ [][NextPage]_vars

----------------------------------------------------------------------------
(* Properties *)

\* a call has returned or raised
Called == history # <<>>

\* the input of the call is a non-empty array of row objects
ArrayOfRows(d) ==
    /\ d.t = "array"
    /\ Len(d.a) > 0
    /\ \A i \in 1..Len(d.a) : d.a[i].t = "object"

\* the view of the given name in the record the call returned, or Threw
ReturnedView(out, h, name) ==
    IF out.t = "ok" THEN Ok(h[out.v][name]) ELSE Threw

\* C1: called with an empty array or with null, processDataForDashboard
\* returns a record equal to the default bundle in all seven views, and it
\* enters generateDefaultData only: no column classification and no
\* aggregator is run.
C1_EmptyOrNullGivesDefaults ==
    (Called /\ data \in {JSArr(<<>>), Null}) =>
        /\ result.t = "ok"
        /\ heap[result.v] = DefaultBundle
        /\ calls = <<"processDataForDashboard", "generateDefaultData">>
        /\ views = NoViews

C1_Witness ==
    /\ Called
    /\ data = Null
    /\ result.t = "ok"
    /\ heap[result.v].categories = DefaultCategories

\* C2: for every dataset-level input shape (null, undefined, empty array,
\* number, string, boolean, plain object, array whose first element is null
\* or has no keys) processDataForDashboard returns a result record and does
\* not raise.
C2_TotalOverShapes ==
    (Called /\ data \in {d \in ShapeInputs : d.t # "boolean"}) => result.t = "ok"

\* d with the value of column col replaced by v in row i (rows without the
\* column are left as they are)
WithCell(d, i, col, v) ==
    JSArr([d.a EXCEPT ![i] =
        JSObj([j \in 1..Len(d.a[i].e) |->
                  IF d.a[i].e[j].k = col THEN [k |-> col, v |-> v] ELSE d.a[i].e[j]])])

SameSchema(d1, d2) ==
    /\ NumericColumns(d1) = NumericColumns(d2)
    /\ CategoricalColumns(d1) = CategoricalColumns(d2)

GenderValues == {V_Male, V_Female, V_M, V_F, V_x, Num(5), Null}

\* the kpi view of the record returned for d on this host
KPIViewFor(d) ==
    ReturnedView(processDataForDashboard(d, hostLocale, <<>>).out,
                 processDataForDashboard(d, hostLocale, <<>>).heap, "kpi")

\* C3: the kpi view needs the Revenue and Cost roles only, so a dataset with
\* the same numericColumns and categoricalColumns that differs from the
\* processed one in a value of the Gender column alone has the identical kpi
\* view in its result.
C3_KPIUnaffectedByGender ==
    (Called /\ ArrayOfRows(data)) =>
        \A i \in 1..Len(data.a) : \A v \in GenderValues :
            SameSchema(data, WithCell(data, i, C_Gender, v)) =>
                KPIViewFor(WithCell(data, i, C_Gender, v))
                    = ReturnedView(result, heap, "kpi")

\* the fixed shapes of the seven views
HasFixedShapes(r) ==
    /\ DOMAIN r = {ViewNames[i] : i \in 1..Len(ViewNames)}
    /\ r.age.labels = AgeLabels
    /\ Len(r.age.data) = 5
    /\ Len(r.customers.labels) <= 5
    /\ Len(r.customers.data) = Len(r.customers.labels)
    /\ r.trends.labels = MonthLabels
    /\ Len(r.trends.data) = 12
    /\ r.weekday.labels = WeekdayLabels
    /\ Len(r.weekday.data) = 7
    /\ Len(r.categories) <= 8
    /\ \A i \in 1..Len(r.categories) : DOMAIN r.categories[i] = {"name", "value"}

\* C4: for every input the call returns a record with exactly the seven
\* views in their fixed shapes: 5 age labels and values, at most 5 customers
\* with as many values, Jan..Dec with 12 values, Sun..Sat with 7 values, at
\* most 8 {name, value} categories.
C4_SevenFixedShapes ==
    Called => (result.t = "ok" /\ HasFixedShapes(heap[result.v]))

RevenueBinding(d) ==
    findColumn(NumericColumns(d), <<S_revenue, S_sales, S_total, S_amount>>)
CostBinding(d) ==
    findColumn(NumericColumns(d), <<S_cost, S_cogs, S_expense>>)

\* a cell whose numeric reading is not in question: a number, a string that
\* is a decimal literal from end to end, or nothing (null, missing key)
IsPlainCell(v) ==
    \/ v.t \in {"null", "undefined"}
    \/ v.t = "number" /\ ~IsNaN(v)
    \/ /\ v.t = "string"
       /\ \E i \in 1..Len(v.s) : IsDigit(v.s[i])
       /\ \A i \in 1..Len(v.s) : IsDigit(v.s[i]) \/ v.s[i] = "."
       /\ Cardinality({i \in 1..Len(v.s) : v.s[i] = "."}) <= 1

CellNumber(v) ==
    IF v.t = "number" THEN v
    ELSE IF v.t = "string" THEN ParseFloat(v)
    ELSE Num(0)

\* the total of the plain cells of a column over the first k rows
RECURSIVE PlainTotal(_, _, _)
PlainTotal(rows, col, k) ==
    IF k = 0 THEN Num(0)
    ELSE Add(PlainTotal(rows, col, k - 1), CellNumber(GetProp(rows[k], col)))

\* what the KPI of a role is to be: the total of its column, or the constant
ExpectedTotal(d, binding, constant) ==
    IF binding = Null THEN constant ELSE PlainTotal(d.a, binding.s, Len(d.a))

PlainColumn(d, binding) ==
    binding = Null \/ \A i \in 1..Len(d.a) : IsPlainCell(GetProp(d.a[i], binding.s))

\* C6: for a non-empty dataset, kpi.revenue is the sum over all rows of the
\* column bound to Revenue, or 5400000 when Revenue is unbound; kpi.cogs is
\* the sum over all rows of the column bound to Cost, or 3100000 when Cost is
\* unbound; kpi.profit = kpi.revenue - kpi.cogs.  (Cells are numbers, decimal
\* strings, null or missing.)
C6_KPISums ==
    (/\ views.kpi.t = "ok"
     /\ ArrayOfRows(data)
     /\ PlainColumn(data, RevenueBinding(data))
     /\ PlainColumn(data, CostBinding(data))) =>
        /\ views.kpi.v.revenue = ExpectedTotal(data, RevenueBinding(data), Num(5400000))
        /\ views.kpi.v.cogs = ExpectedTotal(data, CostBinding(data), Num(3100000))
        /\ views.kpi.v.profit = Sub(views.kpi.v.revenue, views.kpi.v.cogs)

C6_Witness ==
    /\ views.kpi.t = "ok"
    /\ ArrayOfRows(data)
    /\ Len(data.a) = 2
    /\ RevenueBinding(data) # Null
    /\ CostBinding(data) # Null
    /\ PlainColumn(data, RevenueBinding(data))
    /\ PlainColumn(data, CostBinding(data))
    /\ views.kpi.v.revenue = Num(-150)
    /\ views.kpi.v.cogs = Rat(95, 2)

\* C7: for a non-empty dataset, kpi.profitMargin is kpi.profit / kpi.revenue
\* * 100 when kpi.revenue > 0, also when the revenue is the constant 5400000,
\* and it is 42.18 when kpi.revenue <= 0.
C7_MarginRule ==
    (views.kpi.t = "ok" /\ ArrayOfRows(data)) =>
        views.kpi.v.profitMargin =
            IF Gt(views.kpi.v.revenue, Num(0))
            THEN Mul(Div(views.kpi.v.profit, views.kpi.v.revenue), Num(100))
            ELSE Rat(4218, 100)

NeitherRoleBinds(d) == RevenueBinding(d) = Null /\ CostBinding(d) = Null

\* C8 as stated: for a non-empty dataset in which neither Revenue nor Cost
\* binds, with or without other numeric columns, the kpi view is the default
\* {cogs: 3100000, revenue: 5400000, profit: 2300000, profitMargin: 42.18}.
C8_UnboundGivesDefaultKPI ==
    (views.kpi.t = "ok" /\ ArrayOfRows(data) /\ NeitherRoleBinds(data)) => views.kpi.v = DefaultKPI

\* C8 amended: when neither Revenue nor Cost binds, cogs, revenue and profit
\* are 3100000, 5400000 and 2300000; profitMargin is 42.18 when the first
\* row has no numeric column and 2300000 / 5400000 * 100 when it has one.
C8_UnboundKPI ==
    (views.kpi.t = "ok" /\ ArrayOfRows(data) /\ NeitherRoleBinds(data)) =>
        /\ views.kpi.v.cogs = Num(3100000)
        /\ views.kpi.v.revenue = Num(5400000)
        /\ views.kpi.v.profit = Num(2300000)
        /\ views.kpi.v.profitMargin =
                IF Len(NumericColumns(data)) = 0 THEN Rat(4218, 100)
                ELSE Mul(Rat(2300000, 5400000), Num(100))

C8_Witness ==
    /\ views.kpi.t = "ok"
    /\ ArrayOfRows(data)
    /\ NeitherRoleBinds(data)
    /\ Len(NumericColumns(data)) > 0
    /\ views.kpi.v.profitMargin = Rat(1150, 27)

\* every row of d holds "Male" or "Female" in the Gender column
OnlyMaleFemale(d) ==
    /\ ArrayOfRows(d)
    /\ \A i \in 1..Len(d.a) : GetProp(d.a[i], C_Gender) \in {V_Male, V_Female}

CountOf(d, v) == Cardinality({i \in 1..Len(d.a) : GetProp(d.a[i], C_Gender) = v})

\* C9: for a dataset whose Gender column holds only "Male" and "Female",
\* gender.male = 100 * (rows with "Male") / rows and gender.female = 100 *
\* (rows with "Female") / rows.
C9_MaleFemaleShares ==
    (Called /\ OnlyMaleFemale(data)) =>
        /\ result.t = "ok"
        /\ heap[result.v].gender.male
                = F64Times(F64FromRatio(CountOf(data, V_Male), Len(data.a)), 100)
        /\ heap[result.v].gender.female
                = F64Times(F64FromRatio(CountOf(data, V_Female), Len(data.a)), 100)

PercentRange(x) == F64Le(F64Zero, x) /\ F64Le(x, F64Int(100))

\* C10 as stated: in every result record gender.male and gender.female are
\* within 0..100 and gender.male + gender.female = 100.
C10_SharesSumTo100 ==
    result.t = "ok" =>
        /\ PercentRange(heap[result.v].gender.male)
        /\ PercentRange(heap[result.v].gender.female)
        /\ F64Plus(heap[result.v].gender.male, heap[result.v].gender.female) = F64Int(100)

\* 100 - 2^-30 and 100 + 2^-30
NearHundredLow == F64Round(IntBits(99) \o [i \in 1..30 |-> 1], -30, FALSE)
NearHundredHigh == F64Round(IntBits(100) \o Zeros(29) \o <<1>>, -30, FALSE)

\* C10 amended: in every result record gender.male and gender.female are
\* within 0..100 and gender.male + gender.female is 100 up to the rounding
\* of the arithmetic: it differs from 100 by less than 2^-30.
C10_SharesSumNear100 ==
    result.t = "ok" =>
        /\ PercentRange(heap[result.v].gender.male)
        /\ PercentRange(heap[result.v].gender.female)
        /\ F64Le(NearHundredLow,
                 F64Plus(heap[result.v].gender.male, heap[result.v].gender.female))
        /\ F64Le(F64Plus(heap[result.v].gender.male, heap[result.v].gender.female),
                 NearHundredHigh)

C10_Witness ==
    /\ result.t = "ok"
    /\ ArrayOfRows(data)
    /\ Len(data.a) = 3
    /\ heap[result.v].gender.male = F64Times(F64FromRatio(1, 3), 100)
    /\ F64Plus(heap[result.v].gender.male, heap[result.v].gender.female) # F64Int(100)


\* the column bound to the Age role, or Null
AgeBinding(d) == findColumn(CategoricalColumns(d), <<S_age>>)

\* an age cell whose integer reading is not in question: a string of digits,
\* a string without any digit, a whole number, or nothing
IsPlainAge(v) ==
    \/ v.t \in {"null", "undefined"}
    \/ v.t = "number" /\ v.d = 1
    \/ /\ v.t = "string"
       /\ \/ \A i \in 1..Len(v.s) : IsDigit(v.s[i])
          \/ \A i \in 1..Len(v.s) : ~IsDigit(v.s[i])

\* the age of a plain age cell, as an integer
AgeOf(v) ==
    IF v.t = "number" THEN v.n
    ELSE IF v.t = "string" /\ v.s # <<>> /\ IsDigit(v.s[1]) THEN DigitsVal(v.s, 1, Len(v.s))
    ELSE 0

\* the bin (1..5) of an age
AgeBin(age) ==
    IF age <= 20 THEN 1
    ELSE IF age <= 30 THEN 2
    ELSE IF age <= 40 THEN 3
    ELSE IF age <= 50 THEN 4
    ELSE 5

\* the rows of d in reverse order
ReverseRows(d) == JSArr([i \in 1..Len(d.a) |-> d.a[Len(d.a) + 1 - i]])

\* C11: when Age is bound, age.labels is '0-20', '21-30', '31-40', '41-50',
\* '51+' in that order and age.data[g] is the number of rows whose age (0 when
\* unparsable or missing) lies in bin g: at most 20, 21..30, 31..40, 41..50,
\* above 50; the same view results for the rows in reverse order whenever Age
\* is still bound then.  (Ages are digit strings, whole numbers, strings
\* without digits, null or missing.)
C11_AgeBuckets ==
    (/\ views.age.t = "ok"
     /\ ArrayOfRows(data)
     /\ AgeBinding(data) # Null
     /\ \A i \in 1..Len(data.a) : IsPlainAge(GetProp(data.a[i], AgeBinding(data).s))) =>
        /\ views.age.v.labels = AgeLabels
        /\ \A g \in 1..5 :
              views.age.v.data[g] =
                  Num(Cardinality({i \in 1..Len(data.a) :
                        AgeBin(AgeOf(GetProp(data.a[i], AgeBinding(data).s))) = g}))
        /\ AgeBinding(ReverseRows(data)) # Null =>
              analyzeAge(ReverseRows(data), CategoricalColumns(ReverseRows(data)))
                  = views.age

C11_Witness ==
    /\ views.age.t = "ok"
    /\ ArrayOfRows(data)
    /\ AgeBinding(data) # Null
    /\ views.age.v.data = <<Num(1), Num(1), Num(0), Num(0), Num(0)>>
    /\ GetProp(data.a[1], C_Age) = JSStr(<<"2","1">>)

\* the columns bound to the Customer role and to its value, or Null
CustomerBinding(d) ==
    findColumn(CategoricalColumns(d), <<S_customer, S_name, S_client>>)
CustomerValueBinding(d) ==
    findColumn(NumericColumns(d), <<S_revenue, S_sales, S_total, S_amount, S_profit>>)

\* the customer of row i as a group key, for a row that has one
CustomerKey(d, i) == JSToString(GetProp(d.a[i], CustomerBinding(d).s))

\* the rows that belong to a customer group
GroupedRows(d) ==
    {i \in 1..Len(d.a) : Truthy(GetProp(d.a[i], CustomerBinding(d).s))}

CustomerGroups(d) == {CustomerKey(d, i) : i \in GroupedRows(d)}

\* the sum of the value column over the rows of a group among the first k
RECURSIVE GroupTotalTo(_, _, _)
GroupTotalTo(d, key, k) ==
    IF k = 0 THEN Num(0)
    ELSE IF k \in GroupedRows(d) /\ CustomerKey(d, k) = key
    THEN Add(GroupTotalTo(d, key, k - 1),
             CellNumber(GetProp(d.a[k], CustomerValueBinding(d).s)))
    ELSE GroupTotalTo(d, key, k - 1)

GroupTotal(d, key) == GroupTotalTo(d, key, Len(d.a))

\* the customers view lists min(5, number of groups) distinct groups with
\* their totals in units of 100000, in descending order, and no group left
\* out has a larger total than a listed one
IsTopCustomers(v, d) ==
    /\ Len(v.labels) = (IF Cardinality(CustomerGroups(d)) < 5
                        THEN Cardinality(CustomerGroups(d)) ELSE 5)
    /\ Len(v.data) = Len(v.labels)
    /\ \A i \in 1..Len(v.labels) :
          /\ v.labels[i] \in CustomerGroups(d)
          /\ v.data[i] = Div(GroupTotal(d, v.labels[i]), Num(100000))
          /\ \A j \in (i + 1)..Len(v.labels) :
                v.labels[i] # v.labels[j] /\ ~Gt(v.data[j], v.data[i])
          /\ \A g \in CustomerGroups(d) :
                (\A j \in 1..Len(v.labels) : v.labels[j] # g) =>
                    ~Gt(GroupTotal(d, g), GroupTotal(d, v.labels[i]))

CustomersBound(d) ==
    ArrayOfRows(d) /\ CustomerBinding(d) # Null /\ CustomerValueBinding(d) # Null

\* C12: when Customer and a value column are bound, the rows with a
\* non-empty customer are grouped by customer, customers.labels lists the at
\* most 5 groups with the largest sums of the value column in descending
\* order of sum, and customers.data[i] is the sum of group customers.labels[i]
\* divided by 100000.
C12_TopCustomers ==
    (views.customers.t = "ok" /\ CustomersBound(data)) =>
        IsTopCustomers(views.customers.v, data)

\* the same statement for customers that are not named like a member of
\* Object.prototype
C12_TopPlainCustomers ==
    (/\ views.customers.t = "ok"
     /\ CustomersBound(data)
     /\ \A g \in CustomerGroups(data) : InheritedProp(g) = Undefined) =>
        IsTopCustomers(views.customers.v, data)

\* the first row in which a customer group occurs
FirstRowOf(d, key) ==
    CHOOSE i \in GroupedRows(d) :
        CustomerKey(d, i) = key /\ \A j \in GroupedRows(d) : CustomerKey(d, j) = key => i <= j

\* C13: customer groups with equal sums appear in customers.labels in the
\* order in which they were first encountered in the dataset, whatever the
\* customer keys are (also keys that look like integers, such as "10" and
\* "2").
C13_TiesKeepFirstEncountered ==
    (views.customers.t = "ok" /\ CustomersBound(data)) =>
        \A i \in 1..Len(views.customers.v.labels) :
            \A j \in (i + 1)..Len(views.customers.v.labels) :
                views.customers.v.data[i] = views.customers.v.data[j] =>
                    FirstRowOf(data, views.customers.v.labels[i])
                        < FirstRowOf(data, views.customers.v.labels[j])

\* the same statement for customer keys that are not array indices
C13_TiesOfNamesKeepFirstEncountered ==
    (/\ views.customers.t = "ok"
     /\ CustomersBound(data)
     /\ \A g \in CustomerGroups(data) : ~IsIndexKey(g)) =>
        \A i \in 1..Len(views.customers.v.labels) :
            \A j \in (i + 1)..Len(views.customers.v.labels) :
                views.customers.v.data[i] = views.customers.v.data[j] =>
                    FirstRowOf(data, views.customers.v.labels[i])
                        < FirstRowOf(data, views.customers.v.labels[j])

\* the columns the trends view and the weekday view take the date from, and
\* the value column of both, or Null
TrendsDateBinding(d) == findColumn(CategoricalColumns(d), <<S_date, S_time, S_month>>)
WeekdayDateBinding(d) == findColumn(CategoricalColumns(d), <<S_date, S_time>>)
TemporalValueBinding(d) ==
    findColumn(NumericColumns(d), <<S_revenue, S_sales, S_total, S_amount>>)

\* the calendar date a cell is read as: strings that parse as a date; null
\* and missing cells are no dates
DateOfCell(v) == IF v.t = "string" THEN ParseDateString(v.s) ELSE InvalidDate

\* the sum of the value column over the rows among the first k that are
\* dated in month m (1..12), or in any month for m = 0
RECURSIVE MonthTotalTo(_, _, _, _, _)
MonthTotalTo(d, dateCol, valueCol, m, k) ==
    IF k = 0 THEN Num(0)
    ELSE IF /\ DateOfCell(GetProp(d.a[k], dateCol)).valid
            /\ m \in {0, MonthOfDays(DateOfCell(GetProp(d.a[k], dateCol)).days)}
    THEN Add(MonthTotalTo(d, dateCol, valueCol, m, k - 1),
             CellNumber(GetProp(d.a[k], valueCol)))
    ELSE MonthTotalTo(d, dateCol, valueCol, m, k - 1)

TrendsBound(d) ==
    ArrayOfRows(d) /\ TrendsDateBinding(d) # Null /\ TemporalValueBinding(d) # Null

\* C14: in every record the engine returns, trends.labels is Jan..Dec in
\* calendar order and trends.data has 12 entries; when Date and the value
\* column are bound, each month reports the sum of the value column over the
\* rows dated in it, 0 for a month without such a row (twelve zeros when no
\* row has a parseable date).
C14_TrendsComplete ==
    result.t = "ok" =>
        /\ heap[result.v].trends.labels = MonthLabels
        /\ Len(heap[result.v].trends.data) = 12
        /\ TrendsBound(data) =>
              \A m \in 1..12 :
                  heap[result.v].trends.data[m] =
                      MonthTotalTo(data, TrendsDateBinding(data).s,
                                   TemporalValueBinding(data).s, m, Len(data.a))

\* the same statement on a host whose default locale is English, for
\* datasets without rows whose date is null
C14_TrendsCompleteEnglish ==
    (/\ result.t = "ok"
     /\ hostLocale = "en-US"
     /\ TrendsBound(data) =>
            \A i \in 1..Len(data.a) : GetProp(data.a[i], TrendsDateBinding(data).s) # Null) =>
        /\ heap[result.v].trends.labels = MonthLabels
        /\ Len(heap[result.v].trends.data) = 12
        /\ TrendsBound(data) =>
              \A m \in 1..12 :
                  heap[result.v].trends.data[m] =
                      MonthTotalTo(data, TrendsDateBinding(data).s,
                                   TemporalValueBinding(data).s, m, Len(data.a))

\* C15: the trends view and the weekday view use the same Date binding and
\* the same value column: for every non-empty dataset the weekday view is its
\* default exactly when the trends view is its default, and both take the
\* date from the same column.
C15_SameTemporalBindings ==
    (ArrayOfRows(data) /\ views.trends.t = "ok" /\ views.weekday.t = "ok") =>
        /\ (views.weekday.v = DefaultWeekday) <=> (views.trends.v = DefaultTrends)
        /\ WeekdayDateBinding(data) = TrendsDateBinding(data)

\* d without its i-th row
WithoutRow(d, i) == JSArr(SubSeq(d.a, 1, i - 1) \o SubSeq(d.a, i + 1, Len(d.a)))

\* a date cell that does not parse as a calendar date: an unparsable string,
\* null, or a missing cell
IsUnparsableDate(v) ==
    \/ v.t \in {"null", "undefined"}
    \/ v.t = "string" /\ ~ParseDateString(v.s).valid

\* the sum of a sequence of numbers
RECURSIVE SumOf(_)
SumOf(xs) == IF xs = <<>> THEN Num(0) ELSE Add(Head(xs), SumOf(Tail(xs)))

\* trends.data and weekday.data of the record returned for d on this host
TemporalDataFor(d) ==
    <<ComputeViews(d, hostLocale).trends.v.data, ComputeViews(d, hostLocale).weekday.v.data>>

\* C16: when Date and the value column are bound, a row other than the first
\* whose date does not parse (unparsable string, null or missing) adds
\* nothing: trends.data and weekday.data are the same with and without that
\* row, and the total of trends.data is the sum of the value column over the
\* rows with a parseable date.
C16_UnparsableDatesExcluded ==
    (/\ result.t = "ok"
     /\ TrendsBound(data)
     /\ WeekdayDateBinding(data) # Null) =>
        /\ \A i \in 2..Len(data.a) :
              IsUnparsableDate(GetProp(data.a[i], TrendsDateBinding(data).s)) =>
                  TemporalDataFor(WithoutRow(data, i))
                      = <<views.trends.v.data, views.weekday.v.data>>
        /\ SumOf(views.trends.v.data) =
              MonthTotalTo(data, TrendsDateBinding(data).s,
                           TemporalValueBinding(data).s, 0, Len(data.a))

\* the first part of the statement for unparsable strings and missing cells
C16_UnparsableStringsExcluded ==
    (/\ result.t = "ok"
     /\ TrendsBound(data)
     /\ WeekdayDateBinding(data) # Null) =>
        \A i \in 2..Len(data.a) :
            (/\ IsUnparsableDate(GetProp(data.a[i], TrendsDateBinding(data).s))
             /\ GetProp(data.a[i], TrendsDateBinding(data).s) # Null) =>
                TemporalDataFor(WithoutRow(data, i))
                    = <<views.trends.v.data, views.weekday.v.data>>

\* C17: in every record the engine returns, for every input (also when the
\* categories view is the default list of 8 entries), categories has at most
\* 8 entries and they are sorted strictly descending by value.
C17_CategoriesSortedDescending ==
    result.t = "ok" =>
        /\ Len(heap[result.v].categories) <= 8
        /\ \A i \in 1..Len(heap[result.v].categories) :
              \A j \in (i + 1)..Len(heap[result.v].categories) :
                  Gt(ToNumber(heap[result.v].categories[i].value),
                     ToNumber(heap[result.v].categories[j].value))

\* the computed categories view has at most 8 entries, in descending order
\* with ties allowed
C17_ComputedCategoriesDescending ==
    (views.categories.t = "ok" /\ views.categories.v # DefaultCategories) =>
        /\ Len(views.categories.v) <= 8
        /\ \A i \in 1..Len(views.categories.v) :
              \A j \in (i + 1)..Len(views.categories.v) :
                  ~Gt(views.categories.v[j].value, views.categories.v[i].value)

\* s and t have no element in common
Disjoint(s, t) == \A i \in 1..Len(s) : \A j \in 1..Len(t) : s[i] # t[j]

\* C18: for every non-empty dataset the numericColumns and the
\* categoricalColumns derived from the first row have no column name in
\* common, whatever the first-row values are.
C18_SchemaDisjoint ==
    (Called /\ ArrayOfRows(data)) =>
        Disjoint(NumericColumns(data), CategoricalColumns(data))

\* a value that is a native number or a string that parses fully to a
\* finite number
IsFullyNumeric(v) ==
    \/ v.t = "number" /\ ~IsNaN(v)
    \/ v.t = "string" /\ IsPlainCell(v)

\* the elements of a sequence
Range(s) == {s[i] : i \in 1..Len(s)}

\* s lists some of the elements of t, in the order of t
RECURSIVE IsSubsequence(_, _)
IsSubsequence(s, t) ==
    IF s = <<>> THEN TRUE
    ELSE IF t = <<>> THEN FALSE
    ELSE IF Head(s) = Head(t) THEN IsSubsequence(Tail(s), Tail(t))
    ELSE IsSubsequence(s, Tail(t))

\* C19: for every first row, a key is in numericColumns iff its value is a
\* native number or a string that parses fully to a finite number, every
\* other key (non-numeric string, string with trailing characters such as
\* "12abc", boolean, null) is in categoricalColumns, and each list is in
\* first-row key order.
C19_ClassificationRule ==
    (Called /\ ArrayOfRows(data)) =>
        /\ \A key \in Range(ObjectKeys(FirstRow(data))) :
              /\ key \in Range(NumericColumns(data))
                    <=> IsFullyNumeric(GetProp(FirstRow(data), key))
              /\ key \in Range(CategoricalColumns(data))
                    <=> ~IsFullyNumeric(GetProp(FirstRow(data), key))
        /\ IsSubsequence(NumericColumns(data), ObjectKeys(FirstRow(data)))
        /\ IsSubsequence(CategoricalColumns(data), ObjectKeys(FirstRow(data)))

\* the keys of the first row of a dataset of rows
FirstRowKeys(d) == {d.a[1].e[j].k : j \in 1..Len(d.a[1].e)}

\* d with every key that the first row does not have removed from the rows
\* after the first: the dataset before such keys were added
WithoutAddedKeys(d) ==
    JSArr([i \in 1..Len(d.a) |->
              JSObj(SelectSeq(d.a[i].e, LAMBDA e : e.k \in FirstRowKeys(d)))])

\* C20: a column name that is not a key of the first row is bound to no
\* role, and adding such a key, with any value, to rows after the first
\* changes none of the seven views: the call yields what it yields for the
\* dataset without the added keys.
C20_FirstRowOnlySchema ==
    (Called /\ ArrayOfRows(data)) =>
        /\ Range(NumericColumns(data)) \cup Range(CategoricalColumns(data))
                \subseteq FirstRowKeys(data)
        /\ WithoutAddedKeys(data) # data =>
              ComputeViews(WithoutAddedKeys(data), hostLocale) = views

C20_Witness ==
    /\ Called
    /\ ArrayOfRows(data)
    /\ Len(data.a) = 2
    /\ result.t = "ok"
    /\ GetProp(data.a[1], C_Cost) = Undefined
    /\ GetProp(data.a[2], C_Cost) = Num(40)
    /\ heap[result.v].kpi.cogs = Num(3100000)

\* the preference lists the aggregators pass to findColumn
RolePreferences ==
    {<<S_revenue, S_sales, S_total, S_amount>>, <<S_cost, S_cogs, S_expense>>,
     <<S_gender, S_sex>>, <<S_age>>, <<S_customer, S_name, S_client>>,
     <<S_revenue, S_sales, S_total, S_amount, S_profit>>,
     <<S_date, S_time, S_month>>, <<S_date, S_time>>,
     <<S_category, S_product, S_type>>}

\* column i contains preference p, both lower-cased
Matches(columns, prefs, p, i) ==
    Includes(ToLowerCase(columns[i]), ToLowerCase(prefs[p]))

\* the preferences that some column contains
MatchingPreferences(columns, prefs) ==
    {p \in 1..Len(prefs) : \E i \in 1..Len(columns) : Matches(columns, prefs, p, i)}

Least(S) == CHOOSE x \in S : \A y \in S : x <= y

\* the first column that contains the earliest matching preference, or Null
PreferredColumn(columns, prefs) ==
    IF MatchingPreferences(columns, prefs) = {} THEN Null
    ELSE JSStr(columns[Least({i \in 1..Len(columns) :
            Matches(columns, prefs, Least(MatchingPreferences(columns, prefs)), i)})])

\* C21: findColumn(columns, preferenceList) returns the first column, in
\* columns order, that contains the earliest preference substring matching
\* any column at all: an earlier preference beats a later one even if the
\* later one matches an earlier column, and the result is null iff no column
\* contains any preference.  The Revenue KPI of the call is the total of the
\* column so preferred.
C21_FindColumnPriority ==
    (Called /\ ArrayOfRows(data) /\ views.kpi.t = "ok") =>
        /\ \A prefs \in RolePreferences :
              /\ findColumn(NumericColumns(data), prefs)
                    = PreferredColumn(NumericColumns(data), prefs)
              /\ findColumn(CategoricalColumns(data), prefs)
                    = PreferredColumn(CategoricalColumns(data), prefs)
              /\ findColumn(NumericColumns(data), prefs) = Null
                    <=> MatchingPreferences(NumericColumns(data), prefs) = {}
        /\ PlainColumn(data, RevenueBinding(data)) =>
              views.kpi.v.revenue =
                  ExpectedTotal(data,
                      PreferredColumn(NumericColumns(data),
                                      <<S_revenue, S_sales, S_total, S_amount>>),
                      Num(5400000))

C21_Witness ==
    /\ Called
    /\ ArrayOfRows(data)
    /\ NumericColumns(data) = <<C_Total, C_Revenue>>
    /\ Len(data.a) = 2
    /\ views.kpi.t = "ok"
    /\ views.kpi.v.revenue = Num(20)

\* the column bound to the Gender role, or Null
GenderBinding(d) == findColumn(CategoricalColumns(d), <<S_gender, S_sex>>)

\* the lower-cased Gender value of a row: the text of a string, nothing for
\* a null or missing cell
GenderText(row, col) ==
    IF GetProp(row, col).t = "string" THEN ToLowerCase(GetProp(row, col).s) ELSE <<>>

HasChar(s, c) == \E i \in 1..Len(s) : s[i] = c

\* the rows that hold an 'm', and those that hold an 'f' and no 'm'
MaleRows(d, col) == {i \in 1..Len(d.a) : HasChar(GenderText(d.a[i], col), "m")}
FemaleRows(d, col) ==
    {i \in 1..Len(d.a) : /\ ~HasChar(GenderText(d.a[i], col), "m")
                         /\ HasChar(GenderText(d.a[i], col), "f")}

\* count as a percentage of total
PercentOf(count, total) == F64Times(F64FromRatio(count, total), 100)

\* C22: when Gender is bound, a row counts as male iff its lower-cased
\* Gender value contains the character 'm', as female iff it contains no 'm'
\* and an 'f', and as neither otherwise; when no row is classified the view
\* is the default {male: 51.47, female: 48.53}, else male and female are the
\* two counts as percentages of the classified rows.
C22_GenderRule ==
    (/\ Called
     /\ ArrayOfRows(data)
     /\ views.gender.t = "ok"
     /\ GenderBinding(data) # Null) =>
        views.gender.v =
            IF MaleRows(data, GenderBinding(data).s) = {}
                /\ FemaleRows(data, GenderBinding(data).s) = {}
            THEN DefaultGender
            ELSE [male |-> PercentOf(
                      Cardinality(MaleRows(data, GenderBinding(data).s)),
                      Cardinality(MaleRows(data, GenderBinding(data).s))
                          + Cardinality(FemaleRows(data, GenderBinding(data).s))),
                  female |-> PercentOf(
                      Cardinality(FemaleRows(data, GenderBinding(data).s)),
                      Cardinality(MaleRows(data, GenderBinding(data).s))
                          + Cardinality(FemaleRows(data, GenderBinding(data).s)))]

C22_Witness ==
    /\ Called
    /\ ArrayOfRows(data)
    /\ Len(data.a) = 3
    /\ GenderBinding(data) # Null
    /\ GetProp(data.a[1], C_Gender) = V_M
    /\ GetProp(data.a[2], C_Gender) = V_F
    /\ GetProp(data.a[3], C_Gender) = V_x
    /\ views.gender.t = "ok"
    /\ views.gender.v.male = PercentOf(1, 2)
    /\ views.gender.v.female = PercentOf(1, 2)

\* every cell of every row is a string, a number, a boolean or null
ScalarRows(d) ==
    \A i \in 1..Len(d.a) : \A j \in 1..Len(d.a[i].e) :
        d.a[i].e[j].v.t \in {"string", "number", "boolean", "null"}

\* C23: for every non-empty array of rows whose values are scalars (string,
\* number, boolean, null) or missing, every aggregator returns its view
\* without raising; in particular analyzeGender returns a view when a row
\* after the first holds a number or a boolean in the bound Gender column.
C23_AggregatorsTotal ==
    (Called /\ ArrayOfRows(data) /\ ScalarRows(data)) =>
        /\ \A i \in 1..Len(ViewNames) : views[ViewNames[i]].t = "ok"
        /\ result.t = "ok"

\* what a cell is to add to a sum: its number when it is a number or a
\* decimal string from end to end, and 0 otherwise
Contribution(v) == IF IsPlainCell(v) THEN CellNumber(v) ELSE Num(0)

RECURSIVE ContributionTotal(_, _, _)
ContributionTotal(rows, col, k) ==
    IF k = 0 THEN Num(0)
    ELSE Add(ContributionTotal(rows, col, k - 1), Contribution(GetProp(rows[k], col)))

\* C24: in the sums of the KPI view a row whose value in the summed column
\* is null, missing, a boolean or a string that does not parse fully as a
\* finite number (such as "12abc") contributes exactly 0, and the other
\* rows contribute their numbers.
C24_UncoercibleContributeZero ==
    (Called /\ ArrayOfRows(data) /\ views.kpi.t = "ok") =>
        /\ RevenueBinding(data) # Null =>
              views.kpi.v.revenue
                  = ContributionTotal(data.a, RevenueBinding(data).s, Len(data.a))
        /\ CostBinding(data) # Null =>
              views.kpi.v.cogs
                  = ContributionTotal(data.a, CostBinding(data).s, Len(data.a))

\* the columns bound to the Category role and to its value, or Null
CategoryBinding(d) ==
    findColumn(CategoricalColumns(d), <<S_category, S_product, S_type>>)
CategoryValueBinding(d) ==
    findColumn(NumericColumns(d), <<S_revenue, S_sales, S_total, S_amount>>)

CategoriesBound(d) ==
    ArrayOfRows(d) /\ CategoryBinding(d) # Null /\ CategoryValueBinding(d) # Null

\* the rows that belong to a category group, and the groups: the exact
\* strings of the Category column
CategorisedRows(d) ==
    {i \in 1..Len(d.a) : Truthy(GetProp(d.a[i], CategoryBinding(d).s))}

CategoryKey(d, i) == JSToString(GetProp(d.a[i], CategoryBinding(d).s))

CategoryGroups(d) == {CategoryKey(d, i) : i \in CategorisedRows(d)}

\* the sum of the value column over the rows of a category among the first k
RECURSIVE CategoryTotalTo(_, _, _)
CategoryTotalTo(d, key, k) ==
    IF k = 0 THEN Num(0)
    ELSE IF k \in CategorisedRows(d) /\ CategoryKey(d, k) = key
    THEN Add(CategoryTotalTo(d, key, k - 1),
             CellNumber(GetProp(d.a[k], CategoryValueBinding(d).s)))
    ELSE CategoryTotalTo(d, key, k - 1)

CategoryTotal(d, key) == CategoryTotalTo(d, key, Len(d.a))

\* v lists min(8, number of groups) distinct groups under their own names
\* with their sums, in non-increasing order, and no group left out has a
\* larger sum than a listed one
IsTopCategories(v, d) ==
    /\ Len(v) = (IF Cardinality(CategoryGroups(d)) < 8
                 THEN Cardinality(CategoryGroups(d)) ELSE 8)
    /\ \A i \in 1..Len(v) :
          /\ v[i].name \in CategoryGroups(d)
          /\ v[i].value = CategoryTotal(d, v[i].name)
          /\ \A j \in (i + 1)..Len(v) :
                v[i].name # v[j].name /\ ~Gt(v[j].value, v[i].value)
          /\ \A g \in CategoryGroups(d) :
                (\A j \in 1..Len(v) : v[j].name # g) =>
                    ~Gt(CategoryTotal(d, g), CategoryTotal(d, v[i].name))

\* C25: when Category and the value column are bound, rows are grouped by
\* the exact Category string (names that differ in letter case only are
\* distinct groups under their own casing, rows with a falsy category are
\* skipped), each group's value is the sum of the value column over its
\* rows, and the view is the at most 8 groups with the largest sums in
\* non-increasing order of value.
C25_CategoryGroups ==
    (views.categories.t = "ok" /\ CategoriesBound(data)) =>
        IsTopCategories(views.categories.v, data)

\* the same statement for categories that are not named like a member of
\* Object.prototype
C25_PlainCategoryGroups ==
    (/\ views.categories.t = "ok"
     /\ CategoriesBound(data)
     /\ \A g \in CategoryGroups(data) : InheritedProp(g) = Undefined) =>
        IsTopCategories(views.categories.v, data)

\* nine categories, two of them "Tea" and "tea", of which the smallest is
\* left out
C25_PlainWitness ==
    /\ views.categories.t = "ok"
    /\ CategoriesBound(data)
    /\ Len(data.a) = 9
    /\ Cardinality(CategoryGroups(data)) = 9
    /\ Len(views.categories.v) = 8
    /\ views.categories.v[1] = [name |-> CategoryNames[5], value |-> Num(900)]
    /\ \E i \in 1..8 : views.categories.v[i] = [name |-> CategoryNames[1], value |-> Num(300)]
    /\ \A i \in 1..8 : views.categories.v[i].name # CategoryNames[2]

\* the objects the aggregators are handed and share
SharedObjects == {"data", "numericColumns", "categoricalColumns"}

DashboardRecord == heap[dashboardData.v]

\* what the loader assigned to dashboardData: the record the engine
\* returned for the stored dataset, or the default bundle
LoadedBundle ==
    IF history # <<>> /\ history[1].out.t = "ok" THEN history[1].out.v
    ELSE DefaultBundle

\* C27: updateGenderChart replaces the bubbles by the random draws and
\* leaves dashboardData as it was loaded; the two legend texts it writes are
\* dashboardData.gender.male and dashboardData.gender.female with two
\* decimals and a percent sign, whatever was drawn.
C27_RandomnessIsolated ==
    (updates > 0 /\ genderChart # Undefined) =>
        /\ genderChart.male \in RandomDraws
        /\ genderChart.female \in RandomDraws
        /\ DashboardRecord = LoadedBundle
        /\ Len(legends) >= 2 =>
              /\ legends[1] = ToFixed2(DashboardRecord.gender.male) \o <<"%">>
              /\ legends[2] = ToFixed2(DashboardRecord.gender.female) \o <<"%">>

\* one male of three: 33.33% and 66.67% are shown for bubbles drawn apart
C27_Witness ==
    /\ updates = 1
    /\ genderChart # Undefined
    /\ genderChart.male # genderChart.female
    /\ Len(legends) = 2
    /\ ArrayOfRows(data)
    /\ Len(data.a) = 3
    /\ DashboardRecord.gender.male = PercentOf(1, 3)
    /\ legends = << <<"3","3",".","3","3","%">>, <<"6","6",".","6","7","%">> >>

\* the default shares are shown as written in the source
C27_DefaultsShown ==
    (updates > 0 /\ genderChart # Undefined /\ Len(legends) >= 2
        /\ DashboardRecord = DefaultBundle) =>
        legends = << <<"5","1",".","4","7","%">>, <<"4","8",".","5","3","%">> >>

\* loadDashboardData has returned and the request it started, if any, has
\* been dealt with
LoadCompleted == loader = "done"

\* r holds the seven views
IsBundle(r) == DOMAIN r = {ViewNames[i] : i \in 1..Len(ViewNames)}

\* C28: on every path, once loadDashboardData and any request it started
\* have completed, dashboardData holds a complete seven-view bundle (derived
\* from the stored dataset when it parses and the engine returns, the
\* default bundle otherwise: text that is not JSON, an engine that raises,
\* no dataset stored) and updateDashboard has been called.
C28_LoadedAndShown ==
    LoadCompleted =>
        /\ dashboardData # Undefined
        /\ IsBundle(heap[dashboardData.v])
        /\ heap[dashboardData.v] = LoadedBundle
        /\ updates >= 1

\* the same for a page that has a stored item, and for one whose request
\* ends in the catch block
C28_StoredOrFailedRequest ==
    (LoadCompleted /\ (IsStored(uploadedData) \/ updates > 0)) =>
        /\ dashboardData # Undefined
        /\ IsBundle(heap[dashboardData.v])
        /\ heap[dashboardData.v] = LoadedBundle
        /\ updates = 1

\* C29: when Age is bound, the five counts in age.data sum to the number of
\* rows of the dataset: every row, also one whose age is missing, null,
\* unparsable or negative, is counted in exactly one bucket.
C29_AgeCountsSumToRows ==
    (/\ views.age.t = "ok"
     /\ ArrayOfRows(data)
     /\ AgeBinding(data) # Null) =>
        /\ Len(views.age.v.data) = 5
        /\ \A g \in 1..5 : Le(Num(0), views.age.v.data[g])
        /\ SumOf(views.age.v.data) = Num(Len(data.a))

C29_Witness ==
    /\ views.age.t = "ok"
    /\ ArrayOfRows(data)
    /\ AgeBinding(data) # Null
    /\ Len(data.a) = 2
    /\ GetProp(data.a[1], C_Age) = JSStr(<<"-","5">>)
    /\ GetProp(data.a[2], C_Age) = Null
    /\ views.age.v.data = <<Num(2), Num(0), Num(0), Num(0), Num(0)>>

\* the columns of the first row whose lower-cased name contains 'age'
AgeNamedColumns(d) ==
    {j \in 1..Len(d.a[1].e) : Includes(ToLowerCase(d.a[1].e[j].k), S_age)}

\* C30: the Age role is resolved among the categorical columns only: when
\* the first-row value of every column whose name contains 'age' is a
\* native number, the age view is the default (labels '0-20'..'51+', data
\* 41.2, 72.7, 421.5, 504.1, 598) whatever ages the rows hold; ages are
\* bucketed only when the first-row value of such a column is a string.
C30_AgeAmongCategoricalOnly ==
    (views.age.t = "ok" /\ ArrayOfRows(data)) =>
        /\ (\A j \in AgeNamedColumns(data) : data.a[1].e[j].v.t = "number") =>
              views.age.v = DefaultAge
        /\ views.age.v # DefaultAge =>
              \E j \in AgeNamedColumns(data) : data.a[1].e[j].v.t = "string"

C30_Witness ==
    /\ views.age.t = "ok"
    /\ ArrayOfRows(data)
    /\ Len(data.a) = 2
    /\ GetProp(data.a[1], C_Age) = Num(35)
    /\ GetProp(data.a[2], C_Age) = JSStr(<<"5","1">>)
    /\ views.age.v = DefaultAge

====
